---- MODULE Spec2Model ----
(***************************************************************************)
(* VGM -> IMS/BNK transcoder (tools/vgm-to-ims): the VGM parser, the OPL2   *)
(* state tracker, the converter facade that lifts register writes to IMS   *)
(* events, the IMS and BNK writers, and the readers of both files.         *)
(***************************************************************************)
EXTENDS Integers, Sequences, FiniteSets, TLC

(***************************************************************************)
(* Bounds of the model                                                     *)
(***************************************************************************)
\* number of VGM commands one conversion processes
MaxCmds == 4
\* number of register writes in the tracker-only specification
MaxProbeWrites == 2
\* largest tick gap handed to encodeDeltaTime
MaxTicks == 1000
\* number of events handed to an IMSWriter through addEvent
MaxEvents == 3
\* number of bytes after the 64-byte header in the enumerated command streams
MaxData == 4
\* number of instruments a tracker hands to the BNK writer
MaxTable == 101
\* number of instruments handed to the BNK writer one by one
MaxBankNames == 2
\* number of convert() calls made one after the other
MaxRuns == 3
\* number of register writes in the patch specification
MaxPatchWrites == 4
\* the frames the ring buffer of the audio processor holds (32768 in the source)
bufferSize == 3
\* the frames one 'samples' message carries at most
MaxPost == 2
\* the frames received between two 'clear' messages at most
MaxReceived == 6
\* the frames one process() call outputs at most (outputL.length)
MaxFrameCount == 2

(***************************************************************************)
(* Program constants (constants.ts)                                        *)
(***************************************************************************)
VGM_SAMPLE_RATE == 44100
OPL_REG_AVEK_START == 32
OPL_REG_AVEK_END == 53
OPL_REG_KSL_START == 64
OPL_REG_KSL_END == 85
OPL_REG_AD_START == 96
OPL_REG_AD_END == 117
OPL_REG_SR_START == 128
OPL_REG_SR_END == 149
OPL_REG_WAVE_START == 224
OPL_REG_WAVE_END == 245
OPL_REG_FNUM_LOW_START == 160
OPL_REG_FNUM_LOW_END == 168
OPL_REG_KEYON_START == 176
OPL_REG_KEYON_END == 184
OPL_REG_FB_START == 192
OPL_REG_FB_END == 200
OPL_KEYON_MASK == 32
OPL_REG_RHYTHM == 189
OPL_RHYTHM_MODE_MASK == 32
IMS_EVENT_NOTE_ON_COND == 144
IMS_EVENT_INSTRUMENT == 192
IMS_DELTA_240 == 248
IMS_EVENT_NOTE_ON_ALWAYS == 128
IMS_EVENT_VOLUME == 160
IMS_EVENT_PITCH_BEND == 224
IMS_EVENT_TEMPO == 240
IMS_OFFSET_SONGNAME == 6
IMS_OFFSET_BYTESIZE == 42
IMS_OFFSET_DMODE == 58
IMS_OFFSET_TEMPO == 60
IMS_OFFSET_MUSICDATA == 71
BNK_HEADER_SIZE == 20
BNK_LIST_ENTRY_SIZE == 12
BNK_DATA_ENTRY_SIZE == 30
BNK_INSTRUMENT_NAME_SIZE == 9
VGM_CMD_YM3812_WRITE == 90
VGM_CMD_WAIT_LONG == 97
VGM_CMD_WAIT_NTSC == 98
VGM_CMD_WAIT_PAL == 99
VGM_CMD_END == 102
VGM_WAIT_NTSC_SAMPLES == 735
VGM_WAIT_PAL_SAMPLES == 882
VGM_OFFSET_MAGIC == 0
VGM_OFFSET_EOF == 4
VGM_OFFSET_VERSION == 8
VGM_OFFSET_GD3 == 20
VGM_OFFSET_TOTAL_SAMPLES == 24
VGM_OFFSET_LOOP_OFFSET == 28
VGM_OFFSET_LOOP_SAMPLES == 32
VGM_OFFSET_DATA == 52
VGM_OFFSET_YM3812_CLOCK == 80
\* 'ADLIB-' as character codes
\* ims-parser.ts: the size of a page of music data
pageSize == 32768

BNK_SIGNATURE == << 65, 68, 76, 73, 66, 45 >>

voiceMSlot == <<0, 1, 2, 0, 1, 2, 3, 4, 5, 3, 4, 5, 6, 7, 8, 6, 7, 8>>
carrierSlot == <<0, 0, 0, 1, 1, 1, 0, 0, 0, 1, 1, 1, 0, 0, 0, 1, 1, 1>>
freqNums == <<343, 363, 385, 408, 432, 458, 485, 514, 544, 577, 611, 647>>

\* JavaScript null / undefined (an absent value)
Null == -1

\* the bytes a VGM stream can carry as register number or value
Byte == 0 .. 255
Channels == 0 .. 8

(***************************************************************************)
(* Bit operations on non-negative integers                                 *)
(***************************************************************************)
RECURSIVE BitAnd(_, _)
BitAnd(a, b) ==
  IF a = 0 \/ b = 0 THEN 0
  ELSE (a % 2) * (b % 2) + 2 * BitAnd(a \div 2, b \div 2)

RECURSIVE BitOr(_, _)
BitOr(a, b) ==
  IF a = 0 THEN b
  ELSE IF b = 0 THEN a
  ELSE (IF a % 2 = 1 \/ b % 2 = 1 THEN 1 ELSE 0) + 2 * BitOr(a \div 2, b \div 2)

Shr(a, k) == a \div (2 ^ k)
Shl(a, k) == a * (2 ^ k)
Abs(x) == IF x < 0 THEN 0 - x ELSE x
Bool01(b) == IF b THEN 1 ELSE 0

(***************************************************************************)
(* opl-state-tracker.ts                                                    *)
(***************************************************************************)
createDefaultOperator ==
  [am |-> FALSE, vib |-> FALSE, egt |-> FALSE, ksr |-> FALSE,
   mult |-> 0, ksl |-> 0, level |-> 63, attack |-> 0, decay |-> 0,
   sustain |-> 0, release |-> 0, waveform |-> 0]

createDefaultChannel ==
  [operators |-> [i \in 0 .. 1 |-> createDefaultOperator],
   fnum |-> 0, block |-> 0, keyOn |-> FALSE, feedback |-> 0, connection |-> 0]

\* the tracker after its constructor
NewTracker ==
  [channels |-> [c \in Channels |-> createDefaultChannel],
   instruments |-> << >>,
   instrumentHashMap |-> << >>,
   channelInstruments |-> [c \in Channels |-> Null],
   percussionMode |-> FALSE]

\* mutant: ties go to the higher index (<= for <)
RECURSIVE bestNoteLoopTieHigh(_, _, _, _)
bestNoteLoopTieHigh(fnum, noteInOctave, bestNote, bestDiff) ==
  IF noteInOctave >= 12 THEN bestNote
  ELSE LET refFnum == freqNums[noteInOctave + 1]
           diff == Abs(fnum - refFnum)
       IN IF bestDiff = Null \/ diff <= bestDiff
          THEN bestNoteLoopTieHigh(fnum, noteInOctave + 1, noteInOctave, diff)
          ELSE bestNoteLoopTieHigh(fnum, noteInOctave + 1, bestNote, bestDiff)

\* the loop of fnumBlockToMidi: state <<bestNote, bestDiff>>, bestDiff = Null is Infinity
RECURSIVE bestNoteLoop(_, _, _, _)
bestNoteLoop(fnum, noteInOctave, bestNote, bestDiff) ==
  IF noteInOctave >= 12 THEN bestNote
  ELSE LET refFnum == freqNums[noteInOctave + 1]
           diff == Abs(fnum - refFnum)
       IN IF bestDiff = Null \/ diff < bestDiff
          THEN bestNoteLoop(fnum, noteInOctave + 1, noteInOctave, diff)
          ELSE bestNoteLoop(fnum, noteInOctave + 1, bestNote, bestDiff)

\* mutant: the offset of MIDI middle C (60) instead of 12
fnumBlockToMidiMidC(fnum, block) ==
  block * 12 + bestNoteLoop(fnum, 0, 0, Null) + 60

fnumBlockToMidi(fnum, block) ==
  block * 12 + bestNoteLoop(fnum, 0, 0, Null) + 12

\* mutant: the volume follows the carrier attenuation
levelToVolumeFromLevel(level) == 127 - 2 * level

levelToVolume(level) == 127

\* mutant: the offsets 6 and 7 name a slot too (<= 7 for <= 5)
getSlotFromOffsetNoGap(regOffset) ==
  LET offset == regOffset % 32
  IN IF offset >= 0 /\ offset <= 7 THEN offset
     ELSE IF offset >= 8 /\ offset <= 13 THEN offset - 2
     ELSE IF offset >= 16 /\ offset <= 21 THEN offset - 4
     ELSE Null

getSlotFromOffset(regOffset) ==
  LET offset == regOffset % 32
  IN IF offset >= 0 /\ offset <= 5 THEN offset
     ELSE IF offset >= 8 /\ offset <= 13 THEN offset - 2
     ELSE IF offset >= 16 /\ offset <= 21 THEN offset - 4
     ELSE Null

\* the event value `null` and the two events writeKeyOn returns
NoEvent ==
  [type |-> "null", channel |-> Null, note |-> Null, volume |-> Null,
   instrumentIndex |-> Null]

\* this.channels[voiceMSlot[slot]].operators[carrierSlot[slot]] := op
SetOperator(t, slot, op) ==
  LET channel == voiceMSlot[slot + 1]
      opIndex == IF carrierSlot[slot + 1] = 1 THEN 1 ELSE 0
  IN [t EXCEPT !.channels[channel].operators[opIndex] = op]

GetOperator(t, slot) ==
  LET channel == voiceMSlot[slot + 1]
      opIndex == IF carrierSlot[slot + 1] = 1 THEN 1 ELSE 0
  IN t.channels[channel].operators[opIndex]

writeAVEK(t, reg, val) ==
  LET slot == getSlotFromOffset(reg - OPL_REG_AVEK_START)
  IN IF slot = Null THEN [tracker |-> t, event |-> NoEvent]
     ELSE [tracker |->
             SetOperator(t, slot,
               [GetOperator(t, slot) EXCEPT
                  !.am = BitAnd(val, 128) # 0,
                  !.vib = BitAnd(val, 64) # 0,
                  !.egt = BitAnd(val, 32) # 0,
                  !.ksr = BitAnd(val, 16) # 0,
                  !.mult = BitAnd(val, 15)]),
           event |-> NoEvent]

writeKSL(t, reg, val) ==
  LET slot == getSlotFromOffset(reg - OPL_REG_KSL_START)
  IN IF slot = Null THEN [tracker |-> t, event |-> NoEvent]
     ELSE [tracker |->
             SetOperator(t, slot,
               [GetOperator(t, slot) EXCEPT
                  !.ksl = BitAnd(Shr(val, 6), 3),
                  !.level = BitAnd(val, 63)]),
           event |-> NoEvent]

writeAD(t, reg, val) ==
  LET slot == getSlotFromOffset(reg - OPL_REG_AD_START)
  IN IF slot = Null THEN [tracker |-> t, event |-> NoEvent]
     ELSE [tracker |->
             SetOperator(t, slot,
               [GetOperator(t, slot) EXCEPT
                  !.attack = BitAnd(Shr(val, 4), 15),
                  !.decay = BitAnd(val, 15)]),
           event |-> NoEvent]

writeSR(t, reg, val) ==
  LET slot == getSlotFromOffset(reg - OPL_REG_SR_START)
  IN IF slot = Null THEN [tracker |-> t, event |-> NoEvent]
     ELSE [tracker |->
             SetOperator(t, slot,
               [GetOperator(t, slot) EXCEPT
                  !.sustain = BitAnd(Shr(val, 4), 15),
                  !.release = BitAnd(val, 15)]),
           event |-> NoEvent]

writeWave(t, reg, val) ==
  LET slot == getSlotFromOffset(reg - OPL_REG_WAVE_START)
  IN IF slot = Null THEN [tracker |-> t, event |-> NoEvent]
     ELSE [tracker |->
             SetOperator(t, slot,
               [GetOperator(t, slot) EXCEPT !.waveform = BitAnd(val, 3)]),
           event |-> NoEvent]

\* mutant: the value replaces the whole F-Number
writeFnumLowWhole(t, reg, val) ==
  LET channel == reg - OPL_REG_FNUM_LOW_START
  IN IF channel < 0 \/ channel >= 9 THEN [tracker |-> t, event |-> NoEvent]
     ELSE [tracker |-> [t EXCEPT !.channels[channel].fnum = val],
           event |-> NoEvent]

writeFnumLow(t, reg, val) ==
  LET channel == reg - OPL_REG_FNUM_LOW_START
  IN IF channel < 0 \/ channel >= 9 THEN [tracker |-> t, event |-> NoEvent]
     ELSE [tracker |->
             [t EXCEPT !.channels[channel].fnum =
                BitOr(BitAnd(t.channels[channel].fnum, 768), val)],
           event |-> NoEvent]

writeFB(t, reg, val) ==
  LET channel == reg - OPL_REG_FB_START
  IN IF channel < 0 \/ channel >= 9 THEN [tracker |-> t, event |-> NoEvent]
     ELSE [tracker |->
             [t EXCEPT !.channels[channel].feedback = BitAnd(Shr(val, 1), 7),
                       !.channels[channel].connection = BitAnd(val, 1)],
           event |-> NoEvent]

\* mutant: params[12] is the connection bit itself
operatorsToBnkParamsFmDirect(ch) ==
  LET op0 == ch.operators[0]
      op1 == ch.operators[1]
  IN << op0.ksl, op0.mult, ch.feedback, op0.attack, op0.sustain,
        Bool01(op0.egt), op0.decay, op0.release, op0.level,
        Bool01(op0.am), Bool01(op0.vib), Bool01(op0.ksr),
        IF ch.connection # 0 THEN 1 ELSE 0,
        op1.ksl, op1.mult, 0, op1.attack, op1.sustain,
        Bool01(op1.egt), op1.decay, op1.release, op1.level,
        Bool01(op1.am), Bool01(op1.vib), Bool01(op1.ksr),
        0,
        op0.waveform, op1.waveform >>

\* the 28 params, position k+1 here is params[k] in the source
operatorsToBnkParams(ch) ==
  LET op0 == ch.operators[0]
      op1 == ch.operators[1]
  IN << op0.ksl, op0.mult, ch.feedback, op0.attack, op0.sustain,
        Bool01(op0.egt), op0.decay, op0.release, op0.level,
        Bool01(op0.am), Bool01(op0.vib), Bool01(op0.ksr),
        IF ch.connection # 0 THEN 0 ELSE 1,
        op1.ksl, op1.mult, 0, op1.attack, op1.sustain,
        Bool01(op1.egt), op1.decay, op1.release, op1.level,
        Bool01(op1.am), Bool01(op1.vib), Bool01(op1.ksr),
        0,
        op0.waveform, op1.waveform >>

\* params.join(','): the decimal numbers separated by commas
RECURSIVE joinFrom(_, _)
joinFrom(params, k) ==
  IF k > Len(params) THEN ""
  ELSE IF k = 1 THEN ToString(params[k]) \o joinFrom(params, k + 1)
  ELSE "," \o ToString(params[k]) \o joinFrom(params, k + 1)

hashParams(params) == joinFrom(params, 1)

\* id.toString(): the decimal digits as character codes
RECURSIVE toStringCodes(_)
toStringCodes(n) ==
  IF n < 10 THEN << 48 + n >>
  ELSE Append(toStringCodes(n \div 10), 48 + (n % 10))

\* s.padStart(2, '0')
padStart2(s) == IF Len(s) < 2 THEN << 48 >> \o s ELSE s

\* `inst_${id.toString().padStart(2, '0')}` as character codes
instName(id) == << 105, 110, 115, 116, 95 >> \o padStart2(toStringCodes(id))

\* mutant: a new instrument is appended without looking the hash up
extractInstrumentNoLookup(t, channel) ==
  LET ch == t.channels[channel]
      params == operatorsToBnkParams(ch)
      hash == hashParams(params)
      id == Len(t.instruments)
  IN [tracker |->
        [t EXCEPT !.instruments =
                    Append(@, [id |-> id, name |-> instName(id),
                               params |-> params, hash |-> hash]),
                  !.instrumentHashMap = (hash :> id) @@ @],
      index |-> id]

\* mutant: the id of a new instrument is taken after the push
extractInstrumentOffByOne(t, channel) ==
  LET ch == t.channels[channel]
      params == operatorsToBnkParams(ch)
      hash == hashParams(params)
  IN IF hash \in DOMAIN t.instrumentHashMap
     THEN [tracker |-> t, index |-> t.instrumentHashMap[hash]]
     ELSE LET id == Len(t.instruments)
          IN [tracker |->
                [t EXCEPT !.instruments =
                            Append(@, [id |-> id, name |-> instName(id),
                                       params |-> params, hash |-> hash]),
                          !.instrumentHashMap = (hash :> id + 1) @@ @],
              index |-> id + 1]

extractInstrument(t, channel) ==
  LET ch == t.channels[channel]
      params == operatorsToBnkParams(ch)
      hash == hashParams(params)
  IN IF hash \in DOMAIN t.instrumentHashMap
     THEN [tracker |-> t, index |-> t.instrumentHashMap[hash]]
     ELSE LET id == Len(t.instruments)
          IN [tracker |->
                [t EXCEPT !.instruments =
                            Append(@, [id |-> id, name |-> instName(id),
                                       params |-> params, hash |-> hash]),
                          !.instrumentHashMap = (hash :> id) @@ @],
              index |-> id]

\* mutant: a key-on write that finds the key already on retriggers the note
writeKeyOnRetrigger(t, reg, val) ==
  LET channel == reg - OPL_REG_KEYON_START
  IN IF channel < 0 \/ channel >= 9 THEN [tracker |-> t, event |-> NoEvent]
     ELSE
       LET prevKeyOn == t.channels[channel].keyOn
           t1 == [t EXCEPT
                    !.channels[channel].keyOn = BitAnd(val, OPL_KEYON_MASK) # 0,
                    !.channels[channel].block = BitAnd(Shr(val, 2), 7),
                    !.channels[channel].fnum =
                       BitOr(BitAnd(t.channels[channel].fnum, 255),
                             Shl(BitAnd(val, 3), 8))]
           ch == t1.channels[channel]
       IN IF ch.keyOn
          THEN LET ex == extractInstrument(t1, channel)
               IN [tracker |-> [ex.tracker EXCEPT !.channelInstruments[channel] = ex.index],
                   event |-> [type |-> "noteOn", channel |-> channel,
                              note |-> fnumBlockToMidi(ch.fnum, ch.block),
                              volume |-> levelToVolume(ch.operators[1].level),
                              instrumentIndex |-> ex.index]]
          ELSE IF ~ch.keyOn /\ prevKeyOn
          THEN [tracker |-> t1,
                event |-> [type |-> "noteOff", channel |-> channel,
                           note |-> fnumBlockToMidi(ch.fnum, ch.block),
                           volume |-> Null, instrumentIndex |-> Null]]
          ELSE [tracker |-> t1, event |-> NoEvent]

\* mutant: the noteOff event carries no note (the facade then writes 60)
writeKeyOnOffNoNote(t, reg, val) ==
  LET channel == reg - OPL_REG_KEYON_START
  IN IF channel < 0 \/ channel >= 9 THEN [tracker |-> t, event |-> NoEvent]
     ELSE
       LET prevKeyOn == t.channels[channel].keyOn
           \* update state
           t1 == [t EXCEPT
                    !.channels[channel].keyOn = BitAnd(val, OPL_KEYON_MASK) # 0,
                    !.channels[channel].block = BitAnd(Shr(val, 2), 7),
                    !.channels[channel].fnum =
                       BitOr(BitAnd(t.channels[channel].fnum, 255),
                             Shl(BitAnd(val, 3), 8))]
           ch == t1.channels[channel]
       IN IF ch.keyOn /\ ~prevKeyOn
          THEN \* note on: intern the patch; the tracker's own instrumentChange
               \* event is built and dropped, only channelInstruments is kept
               LET ex == extractInstrument(t1, channel)
                   t2 == IF ex.tracker.channelInstruments[channel] # ex.index
                         THEN [ex.tracker EXCEPT !.channelInstruments[channel] = ex.index]
                         ELSE ex.tracker
               IN [tracker |-> t2,
                   event |-> [type |-> "noteOn", channel |-> channel,
                              note |-> fnumBlockToMidi(ch.fnum, ch.block),
                              volume |-> levelToVolume(ch.operators[1].level),
                              instrumentIndex |-> ex.index]]
          ELSE IF ~ch.keyOn /\ prevKeyOn
          THEN [tracker |-> t1,
                event |-> [type |-> "noteOff", channel |-> channel,
                           note |-> Null,
                           volume |-> Null, instrumentIndex |-> Null]]
          ELSE [tracker |-> t1, event |-> NoEvent]

writeKeyOn(t, reg, val) ==
  LET channel == reg - OPL_REG_KEYON_START
  IN IF channel < 0 \/ channel >= 9 THEN [tracker |-> t, event |-> NoEvent]
     ELSE
       LET prevKeyOn == t.channels[channel].keyOn
           \* update state
           t1 == [t EXCEPT
                    !.channels[channel].keyOn = BitAnd(val, OPL_KEYON_MASK) # 0,
                    !.channels[channel].block = BitAnd(Shr(val, 2), 7),
                    !.channels[channel].fnum =
                       BitOr(BitAnd(t.channels[channel].fnum, 255),
                             Shl(BitAnd(val, 3), 8))]
           ch == t1.channels[channel]
       IN IF ch.keyOn /\ ~prevKeyOn
          THEN \* note on: intern the patch; the tracker's own instrumentChange
               \* event is built and dropped, only channelInstruments is kept
               LET ex == extractInstrument(t1, channel)
                   t2 == IF ex.tracker.channelInstruments[channel] # ex.index
                         THEN [ex.tracker EXCEPT !.channelInstruments[channel] = ex.index]
                         ELSE ex.tracker
               IN [tracker |-> t2,
                   event |-> [type |-> "noteOn", channel |-> channel,
                              note |-> fnumBlockToMidi(ch.fnum, ch.block),
                              volume |-> levelToVolume(ch.operators[1].level),
                              instrumentIndex |-> ex.index]]
          ELSE IF ~ch.keyOn /\ prevKeyOn
          THEN [tracker |-> t1,
                event |-> [type |-> "noteOff", channel |-> channel,
                           note |-> fnumBlockToMidi(ch.fnum, ch.block),
                           volume |-> Null, instrumentIndex |-> Null]]
          ELSE [tracker |-> t1, event |-> NoEvent]

writeRegister(t, reg, val) ==
  IF reg = OPL_REG_RHYTHM
  THEN [tracker |-> [t EXCEPT !.percussionMode = BitAnd(val, OPL_RHYTHM_MODE_MASK) # 0],
        event |-> NoEvent]
  ELSE IF reg >= OPL_REG_AVEK_START /\ reg <= OPL_REG_AVEK_END THEN writeAVEK(t, reg, val)
  ELSE IF reg >= OPL_REG_KSL_START /\ reg <= OPL_REG_KSL_END THEN writeKSL(t, reg, val)
  ELSE IF reg >= OPL_REG_AD_START /\ reg <= OPL_REG_AD_END THEN writeAD(t, reg, val)
  ELSE IF reg >= OPL_REG_SR_START /\ reg <= OPL_REG_SR_END THEN writeSR(t, reg, val)
  ELSE IF reg >= OPL_REG_WAVE_START /\ reg <= OPL_REG_WAVE_END THEN writeWave(t, reg, val)
  ELSE IF reg >= OPL_REG_FNUM_LOW_START /\ reg <= OPL_REG_FNUM_LOW_END
       THEN writeFnumLow(t, reg, val)
  ELSE IF reg >= OPL_REG_KEYON_START /\ reg <= OPL_REG_KEYON_END
       THEN writeKeyOn(t, reg, val)
  ELSE IF reg >= OPL_REG_FB_START /\ reg <= OPL_REG_FB_END THEN writeFB(t, reg, val)
  ELSE [tracker |-> t, event |-> NoEvent]

(***************************************************************************)
(* converter.ts                                                            *)
(***************************************************************************)
\* Math.round(samples * (4 * tempo) / VGM_SAMPLE_RATE); Math.round(x) is floor(x + 1/2)
samplesToTicks(samples, tempo) ==
  LET ticksPerSecond == 4 * tempo
  IN (2 * samples * ticksPerSecond + VGM_SAMPLE_RATE) \div (2 * VGM_SAMPLE_RATE)

\* mutant: the instrument change is pushed at every note-on
pushOplEventAlways(f, oplEvent, tick) ==
  IF oplEvent.type = "noteOn"
  THEN [f EXCEPT
          !.channelInstruments[oplEvent.channel] = oplEvent.instrumentIndex,
          !.events = @ \o
             << [type |-> IMS_EVENT_INSTRUMENT, channel |-> oplEvent.channel,
                 data |-> << oplEvent.instrumentIndex >>,
                 absoluteTick |-> tick, orderIndex |-> f.orderIndex],
                [type |-> IMS_EVENT_NOTE_ON_COND, channel |-> oplEvent.channel,
                 data |-> << oplEvent.note, oplEvent.volume >>,
                 absoluteTick |-> tick, orderIndex |-> f.orderIndex + 1] >>,
          !.orderIndex = @ + 2]
  ELSE [f EXCEPT
          !.events = Append(@,
             [type |-> IMS_EVENT_NOTE_ON_COND, channel |-> oplEvent.channel,
              data |-> << oplEvent.note, 0 >>,
              absoluteTick |-> tick, orderIndex |-> f.orderIndex]),
          !.orderIndex = @ + 1]

\* the body of `if (oplEvent)` in processCommands; f holds the loop's locals
\* events, channelInstruments and orderIndex
pushOplEvent(f, oplEvent, tick) ==
  IF oplEvent.type = "noteOn"
  THEN LET change == oplEvent.instrumentIndex # Null
                     /\ f.channelInstruments[oplEvent.channel] # oplEvent.instrumentIndex
           f1 == IF change
                 THEN [f EXCEPT
                         !.channelInstruments[oplEvent.channel] = oplEvent.instrumentIndex,
                         !.events = Append(@,
                            [type |-> IMS_EVENT_INSTRUMENT, channel |-> oplEvent.channel,
                             data |-> << oplEvent.instrumentIndex >>,
                             absoluteTick |-> tick, orderIndex |-> f.orderIndex]),
                         !.orderIndex = @ + 1]
                 ELSE f
       IN [f1 EXCEPT
             !.events = Append(@,
                [type |-> IMS_EVENT_NOTE_ON_COND, channel |-> oplEvent.channel,
                 data |-> << IF oplEvent.note # Null THEN oplEvent.note ELSE 60,
                             IF oplEvent.volume # Null THEN oplEvent.volume ELSE 127 >>,
                 absoluteTick |-> tick, orderIndex |-> f1.orderIndex]),
             !.orderIndex = @ + 1]
  ELSE IF oplEvent.type = "noteOff"
  THEN [f EXCEPT
          !.events = Append(@,
             [type |-> IMS_EVENT_NOTE_ON_COND, channel |-> oplEvent.channel,
              data |-> << IF oplEvent.note # Null THEN oplEvent.note ELSE 60, 0 >>,
              absoluteTick |-> tick, orderIndex |-> f.orderIndex]),
          !.orderIndex = @ + 1]
  ELSE f

\* the locals of processCommands before the loop
startProcess(tracker) ==
  [tracker |-> tracker, events |-> << >>,
   channelInstruments |-> [c \in Channels |-> Null],
   currentSample |-> 0, orderIndex |-> 0]

\* the loop of processCommands from command i on
RECURSIVE processCommandsFrom(_, _, _, _)
processCommandsFrom(st, cmds, i, tmpo) ==
  IF i > Len(cmds) THEN st
  ELSE LET cmd == cmds[i]
       IN IF cmd.type = "write"
          THEN LET r == writeRegister(st.tracker, cmd.register, cmd.value)
                   tick == samplesToTicks(st.currentSample, tmpo)
                   f == pushOplEvent([events |-> st.events,
                                      channelInstruments |-> st.channelInstruments,
                                      orderIndex |-> st.orderIndex], r.event, tick)
               IN processCommandsFrom(
                    [st EXCEPT !.tracker = r.tracker, !.events = f.events,
                               !.channelInstruments = f.channelInstruments,
                               !.orderIndex = f.orderIndex],
                    cmds, i + 1, tmpo)
          ELSE IF cmd.type = "wait"
          THEN processCommandsFrom([st EXCEPT !.currentSample = cmd.absoluteSample],
                                   cmds, i + 1, tmpo)
          ELSE IF cmd.type = "end" THEN st
          ELSE processCommandsFrom(st, cmds, i + 1, tmpo)

(***************************************************************************)
(* ims-writer.ts                                                           *)
(***************************************************************************)
\* mutant: descending order
compareEventsReversed(a, b) ==
  IF a.absoluteTick # b.absoluteTick
  THEN b.absoluteTick - a.absoluteTick
  ELSE b.orderIndex - a.orderIndex

\* the comparator handed to this.events.sort in write()
compareEvents(a, b) ==
  IF a.absoluteTick # b.absoluteTick
  THEN a.absoluteTick - b.absoluteTick
  ELSE a.orderIndex - b.orderIndex

\* Array.prototype.sort is stable: x goes after every element not greater than it
RECURSIVE insertSorted(_, _)
insertSorted(sorted, x) ==
  IF sorted = << >> THEN << x >>
  ELSE IF compareEvents(sorted[Len(sorted)], x) <= 0 THEN Append(sorted, x)
  ELSE Append(insertSorted(SubSeq(sorted, 1, Len(sorted) - 1), x), sorted[Len(sorted)])

RECURSIVE sortEvents(_)
sortEvents(evs) ==
  IF evs = << >> THEN << >>
  ELSE insertSorted(sortEvents(SubSeq(evs, 1, Len(evs) - 1)), evs[Len(evs)])

\* mutant: the loop stops at 240 ticks left (while ticks > 240)
RECURSIVE chunks240Strict(_)
chunks240Strict(ticks) ==
  IF ticks > 240
  THEN LET r == chunks240Strict(ticks - 240)
       IN [bytes |-> << IMS_DELTA_240 >> \o r.bytes, ticks |-> r.ticks]
  ELSE [bytes |-> << >>, ticks |-> ticks]

\* the while loop of encodeDeltaTime (ticks > 0): one 0xF8 byte for every 240 ticks
\* taken off, until fewer than 240 are left
chunks240(ticks) ==
  [bytes |-> [i \in 1 .. (ticks \div 240) |-> IMS_DELTA_240], ticks |-> ticks % 240]

\* mutant: the chunk loop takes 248 ticks off for every 0xF8 byte
RECURSIVE chunks248(_)
chunks248(ticks) ==
  IF ticks >= 248
  THEN LET r == chunks248(ticks - 248)
       IN [bytes |-> << IMS_DELTA_240 >> \o r.bytes, ticks |-> r.ticks]
  ELSE [bytes |-> << >>, ticks |-> ticks]

encodeDeltaTimeChunk248(ticks) ==
  IF ticks <= 0 THEN << 0 >>
  ELSE LET c == chunks248(ticks)
       IN c.bytes \o << c.ticks >>

\* mutant: a gap that is a whole number of chunks gets no trailing zero byte
encodeDeltaTimeNoZero(ticks) ==
  IF ticks <= 0 THEN << 0 >>
  ELSE LET c == chunks240(ticks)
       IN IF c.ticks = 0 THEN c.bytes ELSE c.bytes \o << c.ticks >>

\* mutant: 240-tick chunks are taken only while more than 255 ticks are left, so
\* that a remainder of 0xF8..0xFF reaches the 0xF7 branch
RECURSIVE chunksOver255(_)
chunksOver255(ticks) ==
  IF ticks > 255
  THEN LET r == chunksOver255(ticks - 240)
       IN [bytes |-> << IMS_DELTA_240 >> \o r.bytes, ticks |-> r.ticks]
  ELSE [bytes |-> << >>, ticks |-> ticks]

encodeDeltaTimeOver255(ticks) ==
  IF ticks <= 0 THEN << 0 >>
  ELSE LET c == chunksOver255(ticks)
       IN IF c.ticks >= 248
          THEN c.bytes \o << 247, c.ticks - 247 >>
          ELSE c.bytes \o << c.ticks >>

encodeDeltaTime(ticks) ==
  IF ticks <= 0 THEN << 0 >>
  ELSE LET c == chunks240(ticks)
       IN IF c.ticks >= 248
          THEN c.bytes \o << 247, c.ticks - 247 >>
          ELSE c.bytes \o << c.ticks >>

\* a little-endian unsigned integer of DataView.setUint16 / setUint32
le16(n) == << n % 256, (n \div 256) % 256 >>
le32(n) == << n % 256, (n \div 256) % 256, (n \div 65536) % 256, (n \div 16777216) % 256 >>

\* DataView.getUint8 / getUint16 / getUint32 (little-endian) at byte offset o of a
\* buffer that holds all the bytes read
getUint8(buf, o) == buf[o + 1]
getUint16(buf, o) == buf[o + 1] + 256 * buf[o + 2]
getUint32(buf, o) ==
  buf[o + 1] + 256 * buf[o + 2] + 65536 * buf[o + 3] + 16777216 * buf[o + 4]

\* storing a sequence of numbers into a Uint8Array keeps each modulo 256
toUint8(s) == [i \in 1 .. Len(s) |-> s[i] % 256]

\* str.charCodeAt(i) for i < str.length, 0 beyond: a fixed-width NUL-padded field
charAtOrNul(str, i) == IF i < Len(str) THEN str[i + 1] % 256 ELSE 0

\* str.substring(0, n)
substring0(str, n) == SubSeq(str, 1, IF Len(str) < n THEN Len(str) ELSE n)

\* event.data[k] ?? 0
dataOr0(event, k) == IF k < Len(event.data) THEN event.data[k + 1] ELSE 0

\* the event data pushed after the status byte
eventData(event) ==
  CASE event.type \in {IMS_EVENT_NOTE_ON_ALWAYS, IMS_EVENT_NOTE_ON_COND} ->
         << dataOr0(event, 0), dataOr0(event, 1) >>
    [] event.type = IMS_EVENT_VOLUME -> << dataOr0(event, 0) >>
    [] event.type = IMS_EVENT_INSTRUMENT -> << dataOr0(event, 0) >>
    [] event.type = IMS_EVENT_PITCH_BEND ->
         << dataOr0(event, 0), dataOr0(event, 1) >>
    [] event.type = IMS_EVENT_TEMPO ->
         << 0, 0, dataOr0(event, 0), dataOr0(event, 1), 0 >>
    [] OTHER -> << >>

\* mutant: no running status, the status byte is pushed for every event
encodeEventAlwaysStatus(event, runningStatus) ==
  << BitOr(event.type, event.channel) >> \o eventData(event)

encodeEvent(event, runningStatus) ==
  LET statusByte == BitOr(event.type, event.channel)
      status == IF statusByte # runningStatus THEN << statusByte >> ELSE << >>
  IN status \o eventData(event)

\* the loop of encodeMusicData from event i on: for every event its bytes and the
\* bytes of the delta to the next event (0 after the last one)
RECURSIVE encodeMusicDataLoop(_, _, _)
encodeMusicDataLoop(evs, i, runningStatus) ==
  IF i > Len(evs) THEN << >>
  ELSE LET event == evs[i]
           nextTick == IF i + 1 <= Len(evs) THEN evs[i + 1].absoluteTick
                       ELSE event.absoluteTick
       IN << [eventBytes |-> encodeEvent(event, runningStatus),
              deltaBytes |-> encodeDeltaTime(nextTick - event.absoluteTick)] >>
          \o encodeMusicDataLoop(evs, i + 1, BitOr(event.type, event.channel))

RECURSIVE flattenParts(_)
flattenParts(parts) ==
  IF parts = << >> THEN << >>
  ELSE Head(parts).eventBytes \o Head(parts).deltaBytes \o flattenParts(Tail(parts))

\* mutant: no loop marker is appended
encodeMusicDataNoMarker(evs) ==
  toUint8(flattenParts(encodeMusicDataLoop(evs, 1, -1)))

encodeMusicData(evs) ==
  toUint8(flattenParts(encodeMusicDataLoop(evs, 1, -1)) \o << 252 >>)

\* a new IMSWriter
NewIMSWriter ==
  [events |-> << >>, instrumentNames |-> << >>, songName |-> << >>,
   basicTempo |-> 120, dMode |-> 0]

setSongName(w, name) == [w EXCEPT !.songName = substring0(name, 30)]

\* mutant: the header gets the ticks per second (4 * tempo) instead of the tempo
setTempoTicksPerSecond(w, t) ==
  [w EXCEPT !.basicTempo = IF 4 * t > 255 THEN 255 ELSE IF 4 * t < 1 THEN 1 ELSE 4 * t]

setTempo(w, t) ==
  [w EXCEPT !.basicTempo = IF t > 255 THEN 255 ELSE IF t < 1 THEN 1 ELSE t]

setDrumMode(w, mode) == [w EXCEPT !.dMode = mode]

setInstruments(w, names) ==
  [w EXCEPT !.instrumentNames = [i \in 1 .. Len(names) |-> substring0(names[i], 8)]]

addEvents(w, evs) == [w EXCEPT !.events = @ \o evs]

\* n zero bytes: the buffer is zero-initialised
Zeros(n) == [i \in 1 .. n |-> 0]

\* the sequences of a sequence, concatenated
RECURSIVE concatAll(_)
concatAll(seqs) ==
  IF seqs = << >> THEN << >> ELSE Head(seqs) \o concatAll(Tail(seqs))

\* the bytes write() returns for a writer whose events are already sorted: every
\* field at its offset, zeros between the fields
imsFileOf(w, musicData) ==
  LET n == Len(w.instrumentNames)
      header ==
        Zeros(IMS_OFFSET_SONGNAME)
          \o [i \in 1 .. 30 |-> charAtOrNul(w.songName, i - 1)]
          \o Zeros(IMS_OFFSET_BYTESIZE - (IMS_OFFSET_SONGNAME + 30))
          \o le32(Len(musicData))
          \o Zeros(IMS_OFFSET_DMODE - (IMS_OFFSET_BYTESIZE + 4))
          \o << w.dMode % 256 >>
          \o Zeros(IMS_OFFSET_TEMPO - (IMS_OFFSET_DMODE + 1))
          \o le16(w.basicTempo)
          \o Zeros(IMS_OFFSET_MUSICDATA - (IMS_OFFSET_TEMPO + 2))
      names == [i \in 1 .. n |-> [j \in 1 .. 9 |-> charAtOrNul(w.instrumentNames[i], j - 1)]]
  IN header \o musicData \o << 0 >> \o le16(n) \o concatAll(names)

\* mutant: the header's byteSize leaves the loop marker out
imsWriteSizeShort(w) ==
  LET sorted == sortEvents(w.events)
      musicData == encodeMusicData(sorted)
      file == imsFileOf([w EXCEPT !.events = sorted], musicData)
  IN [writer |-> [w EXCEPT !.events = sorted],
      file |-> [p \in 1 .. Len(file) |->
                  IF p = IMS_OFFSET_BYTESIZE + 1 THEN (Len(musicData) - 1) % 256
                  ELSE file[p]]]

\* write(): sorts this.events in place and returns the file
imsWrite(w) ==
  LET sorted == sortEvents(w.events)
  IN [writer |-> [w EXCEPT !.events = sorted],
      file |-> imsFileOf([w EXCEPT !.events = sorted], encodeMusicData(sorted))]

(***************************************************************************)
(* bnk-writer.ts                                                           *)
(***************************************************************************)
\* a new BNKWriter
NewBNKWriter == [instruments |-> << >>]

addInstrument(b, instrument) == [b EXCEPT !.instruments = Append(@, instrument)]

addInstruments(b, instruments) == [b EXCEPT !.instruments = @ \o instruments]

getInstrumentCount(b) == Len(b.instruments)

getInstrumentNames(b) == [i \in 1 .. Len(b.instruments) |-> b.instruments[i].name]

\* the first `length` character codes of str, NUL-padded
stringToBytes(str, length) == [i \in 1 .. length |-> charAtOrNul(str, i - 1)]

\* inst.params[j] ?? 0
paramOr0(params, j) == IF j < Len(params) THEN params[j + 1] ELSE 0

\* BNKWriter.write(): header, directory and data in the order of this.instruments
bnkWrite(b) ==
  LET insCount == Len(b.instruments)
      listSize == insCount * BNK_LIST_ENTRY_SIZE
      header ==
        le16(1) \o BNK_SIGNATURE \o le16(insCount) \o le16(0)
          \o le32(BNK_HEADER_SIZE) \o le32(BNK_HEADER_SIZE + listSize)
      list == [i \in 1 .. insCount |->
                le16(i - 1) \o << 1 >>
                  \o stringToBytes(b.instruments[i].name, BNK_INSTRUMENT_NAME_SIZE)]
      data == [i \in 1 .. insCount |->
                << 0, (i - 1) % 256 >>
                  \o [j \in 1 .. 28 |-> paramOr0(b.instruments[i].params, j - 1) % 256]]
  IN header \o concatAll(list) \o concatAll(data)

(***************************************************************************)
(* vgm-parser.ts                                                           *)
(***************************************************************************)
\* whether the n bytes at byte offset o lie inside the buffer; a DataView read
\* outside of it throws a RangeError
InRange(buf, o, n) == o >= 0 /\ o + n <= Len(buf)

\* 'Vgm ' as character codes
VgmMagic == << 86, 103, 109, 32 >>

\* what parseHeader returns once the magic is accepted
headerFields(buf) ==
  IF \E o \in {VGM_OFFSET_EOF, VGM_OFFSET_VERSION, VGM_OFFSET_GD3,
                VGM_OFFSET_TOTAL_SAMPLES, VGM_OFFSET_LOOP_OFFSET,
                VGM_OFFSET_LOOP_SAMPLES, VGM_OFFSET_DATA} : ~InRange(buf, o, 4)
  THEN [error |-> "RangeError", header |-> Null]
  ELSE LET dataOffsetRel == getUint32(buf, VGM_OFFSET_DATA)
       IN [error |-> "none",
           header |->
             [eofOffset |-> getUint32(buf, VGM_OFFSET_EOF),
              version |-> getUint32(buf, VGM_OFFSET_VERSION),
              gd3Offset |-> getUint32(buf, VGM_OFFSET_GD3),
              totalSamples |-> getUint32(buf, VGM_OFFSET_TOTAL_SAMPLES),
              loopOffset |-> getUint32(buf, VGM_OFFSET_LOOP_OFFSET),
              loopSamples |-> getUint32(buf, VGM_OFFSET_LOOP_SAMPLES),
              ym3812Clock |-> IF Len(buf) > VGM_OFFSET_YM3812_CLOCK + 4
                              THEN getUint32(buf, VGM_OFFSET_YM3812_CLOCK)
                              ELSE 0,
              dataOffset |-> IF dataOffsetRel = 0 THEN 64
                             ELSE VGM_OFFSET_DATA + dataOffsetRel]]

\* mutant: the magic is read and not compared
parseHeaderAnyMagic(buf) ==
  IF ~InRange(buf, VGM_OFFSET_MAGIC, 4)
  THEN [error |-> "RangeError", header |-> Null]
  ELSE headerFields(buf)

\* parseHeader: the error thrown ("none" when it returns) and the header returned
parseHeader(buf) ==
  IF ~InRange(buf, VGM_OFFSET_MAGIC, 4)
  THEN [error |-> "RangeError", header |-> Null]
  ELSE IF SubSeq(buf, VGM_OFFSET_MAGIC + 1, VGM_OFFSET_MAGIC + 4) # VgmMagic
  THEN [error |-> "InvalidMagic", header |-> Null]
  ELSE headerFields(buf)

\* a record is pushed; clockLog notes the clock the iteration started with
pushRecord(p, o, clock, rec) ==
  [p EXCEPT !.offset = o, !.absoluteSample = clock,
            !.commands = Append(@, rec),
            !.clockLog = Append(@, p.absoluteSample)]

\* mutant: the Wait record carries the clock from before the wait
pushWaitStale(p, o, samples) ==
  pushRecord(p, o, p.absoluteSample + samples,
             [type |-> "wait", register |-> Null, value |-> Null,
              samples |-> samples, absoluteSample |-> p.absoluteSample])

\* the clock advances, then the Wait record is pushed
pushWait(p, o, samples) ==
  pushRecord(p, o, p.absoluteSample + samples,
             [type |-> "wait", register |-> Null, value |-> Null,
              samples |-> samples, absoluteSample |-> p.absoluteSample + samples])

\* mutant: the header of a data block is skipped, its data bytes are not
parseCommandBlockHeader(buf, p) ==
  LET cmd == getUint8(buf, p.offset)
      o == p.offset + 1
      thrown == [p EXCEPT !.state = "RangeError"]
  IN IF cmd = VGM_CMD_YM3812_WRITE
     THEN IF ~InRange(buf, o, 2) THEN thrown
          ELSE pushRecord(p, o + 2, p.absoluteSample,
                          [type |-> "write", register |-> getUint8(buf, o),
                           value |-> getUint8(buf, o + 1), samples |-> Null,
                           absoluteSample |-> p.absoluteSample])
     ELSE IF cmd = VGM_CMD_WAIT_LONG
     THEN IF ~InRange(buf, o, 2) THEN thrown
          ELSE pushWait(p, o + 2, getUint16(buf, o))
     ELSE IF cmd = VGM_CMD_WAIT_NTSC THEN pushWait(p, o, VGM_WAIT_NTSC_SAMPLES)
     ELSE IF cmd = VGM_CMD_WAIT_PAL THEN pushWait(p, o, VGM_WAIT_PAL_SAMPLES)
     ELSE IF cmd >= 112 /\ cmd <= 127 THEN pushWait(p, o, BitAnd(cmd, 15) + 1)
     ELSE IF cmd = VGM_CMD_END
     THEN [pushRecord(p, o, p.absoluteSample,
                      [type |-> "end", register |-> Null, value |-> Null,
                       samples |-> Null, absoluteSample |-> p.absoluteSample])
           EXCEPT !.state = "returned"]
     ELSE IF cmd = 79 \/ cmd = 80 THEN [p EXCEPT !.offset = o + 1]
     ELSE IF cmd >= 81 /\ cmd <= 95 THEN [p EXCEPT !.offset = o + 2]
     ELSE IF cmd = 103
     THEN IF ~InRange(buf, o + 2, 4) THEN thrown
          ELSE [p EXCEPT !.offset = o + 2 + 4]
     ELSE IF cmd >= 128 /\ cmd <= 143
     THEN [p EXCEPT !.offset = o, !.absoluteSample = @ + BitAnd(cmd, 15)]
     ELSE IF cmd = 224 THEN [p EXCEPT !.offset = o + 4]
     ELSE [p EXCEPT !.offset = o]

\* one iteration of the while loop of parseCommands (offset < byteLength holds)
parseCommand(buf, p) ==
  LET cmd == getUint8(buf, p.offset)
      o == p.offset + 1
      thrown == [p EXCEPT !.state = "RangeError"]
  IN IF cmd = VGM_CMD_YM3812_WRITE
     THEN IF ~InRange(buf, o, 2) THEN thrown
          ELSE pushRecord(p, o + 2, p.absoluteSample,
                          [type |-> "write", register |-> getUint8(buf, o),
                           value |-> getUint8(buf, o + 1), samples |-> Null,
                           absoluteSample |-> p.absoluteSample])
     ELSE IF cmd = VGM_CMD_WAIT_LONG
     THEN IF ~InRange(buf, o, 2) THEN thrown
          ELSE pushWait(p, o + 2, getUint16(buf, o))
     ELSE IF cmd = VGM_CMD_WAIT_NTSC THEN pushWait(p, o, VGM_WAIT_NTSC_SAMPLES)
     ELSE IF cmd = VGM_CMD_WAIT_PAL THEN pushWait(p, o, VGM_WAIT_PAL_SAMPLES)
     ELSE IF cmd >= 112 /\ cmd <= 127 THEN pushWait(p, o, BitAnd(cmd, 15) + 1)
     ELSE IF cmd = VGM_CMD_END
     THEN [pushRecord(p, o, p.absoluteSample,
                      [type |-> "end", register |-> Null, value |-> Null,
                       samples |-> Null, absoluteSample |-> p.absoluteSample])
           EXCEPT !.state = "returned"]
     ELSE IF cmd = 79 \/ cmd = 80 THEN [p EXCEPT !.offset = o + 1]
     ELSE IF cmd >= 81 /\ cmd <= 95 THEN [p EXCEPT !.offset = o + 2]
     ELSE IF cmd = 103
     THEN IF ~InRange(buf, o + 2, 4) THEN thrown
          ELSE [p EXCEPT !.offset = o + 2 + 4 + getUint32(buf, o + 2)]
     ELSE IF cmd >= 128 /\ cmd <= 143
     THEN [p EXCEPT !.offset = o, !.absoluteSample = @ + BitAnd(cmd, 15)]
     ELSE IF cmd = 224 THEN [p EXCEPT !.offset = o + 4]
     ELSE [p EXCEPT !.offset = o]

(***************************************************************************)
(* The readers: binary-reader.ts, bnk-parser.ts, ims-parser.ts             *)
(***************************************************************************)
\* String.toLowerCase on character codes (ASCII)
toLowerCase(str) ==
  [i \in 1 .. Len(str) |-> IF str[i] >= 65 /\ str[i] <= 90 THEN str[i] + 32 ELSE str[i]]

\* a < b on strings: by code unit, a proper prefix first
RECURSIVE strLess(_, _)
strLess(a, b) ==
  IF b = << >> THEN FALSE
  ELSE IF a = << >> THEN TRUE
  ELSE IF Head(a) # Head(b) THEN Head(a) < Head(b)
  ELSE strLess(Tail(a), Tail(b))

strcmpi(a, b) ==
  LET aLower == toLowerCase(a)
      bLower == toLowerCase(b)
  IN IF strLess(aLower, bLower) THEN -1
     ELSE IF strLess(bLower, aLower) THEN 1
     ELSE 0

\* bytes up to the first NUL (all of them when there is none)
RECURSIVE untilNul(_)
untilNul(bytes) ==
  IF bytes = << >> \/ Head(bytes) = 0 THEN << >>
  ELSE << Head(bytes) >> \o untilNul(Tail(bytes))

\* BinaryReader.readString(length, true) at byte offset o (in range)
readString(buf, o, length) == untilNul(SubSeq(buf, o + 1, o + length))

\* parseBNKHeader on a buffer of 20 bytes or more
parseBNKHeader(buf) ==
  [version |-> getUint16(buf, 0),
   signature |-> readString(buf, 2, 6),
   insMaxNum |-> getUint16(buf, 8),
   insListOff |-> getUint32(buf, 12),
   insDataOff |-> getUint32(buf, 16)]

\* the do-while loop of findInstrument from one iteration on: where it stopped
RECURSIVE findLoop(_, _, _, _, _, _)
findLoop(buf, header, targetName, top, bottom, mid) ==
  LET at == header.insListOff + mid * 12 + 3
  IN IF ~InRange(buf, at, 9) THEN [error |-> "RangeError", diff |-> Null, mid |-> mid]
     ELSE LET diff == strcmpi(targetName, readString(buf, at, 9))
              bottom2 == IF diff < 0 THEN mid - 1 ELSE bottom
              top2 == IF diff > 0 THEN mid + 1 ELSE top
              mid2 == IF diff # 0 THEN (bottom2 + top2) \div 2 ELSE mid
          IN IF diff # 0 /\ top2 <= bottom2
             THEN findLoop(buf, header, targetName, top2, bottom2, mid2)
             ELSE [error |-> "none", diff |-> diff, mid |-> mid2]

\* findInstrument: the 28 params found, null, or the RangeError thrown
findInstrument(buf, header, targetName) ==
  LET bottom == header.insMaxNum - 1
      r == findLoop(buf, header, targetName, 0, bottom, bottom \div 2)
  IN IF r.error # "none" THEN [status |-> "RangeError", params |-> << >>]
     ELSE IF r.diff # 0 THEN [status |-> "null", params |-> << >>]
     ELSE IF ~InRange(buf, header.insListOff + r.mid * 12, 2)
     THEN [status |-> "RangeError", params |-> << >>]
     ELSE LET insIndex == getUint16(buf, header.insListOff + r.mid * 12)
              from == header.insDataOff + insIndex * 30 + 2
          IN IF ~InRange(buf, from, 28) THEN [status |-> "RangeError", params |-> << >>]
             ELSE [status |-> "found", params |-> SubSeq(buf, from + 1, from + 28)]

\* loadInstruments: the map from the names found to their params
loadInstruments(buf, instrumentNames) ==
  LET header == parseBNKHeader(buf)
      res == [i \in 1 .. Len(instrumentNames) |->
                findInstrument(buf, header, instrumentNames[i])]
      found == {i \in 1 .. Len(instrumentNames) : res[i].status = "found"}
  IN IF \E i \in 1 .. Len(instrumentNames) : res[i].status = "RangeError"
     THEN [error |-> "RangeError", map |-> << >>]
     ELSE [error |-> "none",
           map |-> [n \in {instrumentNames[i] : i \in found} |->
                      res[CHOOSE i \in found : instrumentNames[i] = n].params]]

\* parseIMS on a file as the writer lays it out: the header fields, the music
\* data in pages of pageSize bytes (a last shorter page for the rest) and the names
parseIMS(buf) ==
  LET byteSize == getUint32(buf, 42)
      pageNum == byteSize \div pageSize
      pageEtc == byteSize % pageSize
      insNum == getUint16(buf, 71 + byteSize + 1)
  IN [byteSize |-> byteSize,
      dMode |-> getUint8(buf, 58),
      chNum |-> 9 + getUint8(buf, 58) * 2,
      basicTempo |-> getUint16(buf, 60),
      musicData |->
        [i \in 1 .. pageNum |->
           SubSeq(buf, 71 + (i - 1) * pageSize + 1, 71 + i * pageSize)]
          \o (IF pageEtc > 0
              THEN << SubSeq(buf, 71 + pageNum * pageSize + 1, 71 + byteSize) >>
              ELSE << >>),
      insNum |-> insNum,
      insNames |-> [i \in 1 .. insNum |->
                      toLowerCase(readString(buf, 71 + byteSize + 3 + (i - 1) * 9, 9))]]

\* mutant: the byte index is the offset itself, not the offset within the page
readPagedByteNoWrap(musicData, offset) ==
  LET pageIndex == offset \div pageSize
  IN IF pageIndex >= Len(musicData) THEN 0
     ELSE IF offset >= Len(musicData[pageIndex + 1]) THEN 0
     ELSE musicData[pageIndex + 1][offset + 1]

readPagedByte(musicData, offset) ==
  LET pageIndex == offset \div pageSize
      byteIndex == offset % pageSize
  IN IF pageIndex >= Len(musicData) THEN 0
     ELSE IF byteIndex >= Len(musicData[pageIndex + 1]) THEN 0
     ELSE musicData[pageIndex + 1][byteIndex + 1]

(***************************************************************************)
(* The audio worklet processor (AdPlugProcessor)                           *)
(***************************************************************************)
\* the processor after its constructor: a ring of bufferSize stereo frames,
\* interleaved
NewProcessor ==
  [buffer |-> [i \in 0 .. bufferSize * 2 - 1 |-> 0],
   writeIndex |-> 0, readIndex |-> 0, samplesAvailable |-> 0]

\* the loop that writes samples[i..] to the ring
RECURSIVE writeLoop(_, _, _)
writeLoop(p, samples, i) ==
  IF i > Len(samples) THEN p
  ELSE writeLoop([p EXCEPT !.buffer[p.writeIndex] = samples[i],
                           !.writeIndex = (p.writeIndex + 1) % (bufferSize * 2)],
                 samples, i + 1)

\* port.onmessage on { type: 'samples', samples }
onSamples(p, samples) ==
  LET numSamples == Len(samples) \div 2
      w == writeLoop(p, samples, 1)
      available == w.samplesAvailable + numSamples
  IN [w EXCEPT !.samplesAvailable =
                 IF available > bufferSize THEN bufferSize ELSE available]

\* port.onmessage on { type: 'clear' }
onClear(p) == [p EXCEPT !.writeIndex = 0, !.readIndex = 0, !.samplesAvailable = 0]

\* the loop of process() from frame i on; output holds the frames << L, R >>
RECURSIVE processLoop(_, _, _, _)
processLoop(p, output, i, frameCount) ==
  IF i >= frameCount THEN [processor |-> p, output |-> output]
  ELSE IF p.samplesAvailable > 0
  THEN processLoop([p EXCEPT !.readIndex = (p.readIndex + 2) % (bufferSize * 2),
                             !.samplesAvailable = p.samplesAvailable - 1],
                   Append(output, << p.buffer[p.readIndex], p.buffer[p.readIndex + 1] >>),
                   i + 1, frameCount)
  ELSE processLoop(p, Append(output, << 0, 0 >>), i + 1, frameCount)

\* process(): the frames output and the `available` of the needSamples message
\* it posts (Null when it posts none)
process(p, frameCount) ==
  LET r == processLoop(p, << >>, 0, frameCount)
  IN [processor |-> r.processor, output |-> r.output,
      needSamples |-> IF 4 * r.processor.samplesAvailable < bufferSize
                      THEN r.processor.samplesAvailable ELSE Null]

(***************************************************************************)
(* State                                                                   *)
(***************************************************************************)
VARIABLES
  oplTracker,          \* convert(): the OPLStateTracker
  tempo,               \* VGMToIMSConverter.tempo
  events,              \* processCommands: events
  channelInstruments,  \* processCommands: channelInstruments
  currentSample,       \* processCommands: currentSample
  orderIndex,          \* processCommands: orderIndex
  pc,                  \* "loop": inside processCommands, "done": convert returned
  nCmds,               \* commands consumed so far
  cmdLog,              \* history: the commands of vgmData.commands consumed so far
  imsEvents,           \* IMSWriter.events as write() leaves them
  lastWrite,           \* history: the last register write and what it returned
  keyOns,              \* history: one entry per key-on transition
  pitchIn,             \* the (channel, fnum, block) keyed by the pitch specification
  deltaTicks,          \* the argument of encodeDeltaTime
  deltaBytes,          \* its result, << >> before the call
  imsWriter,           \* convert(): the IMSWriter
  musicParts,          \* history: what each iteration of encodeMusicData pushed
  imsFile,             \* the bytes IMSWriter.write() returned, << >> before the call
  imsData,             \* what parseIMS returned for imsFile, NotParsed before the call
  bnkWriter,           \* convert(): the BNKWriter
  bnkFile,             \* the bytes BNKWriter.write() returned, << >> before the call
  loaded,              \* what loadInstruments returned, NotLoaded before the call
  vgmBuf,              \* the input buffer of parseVGM
  vgmHeader,           \* what parseHeader returned, Null before
  offset,              \* parseCommands: offset
  absoluteSample,      \* parseCommands: absoluteSample
  commands,            \* parseCommands: commands
  clockLog,            \* history: the clock when the opcode of each record was read
  parseState,          \* "idle", "header", "commands", "returned" or the error thrown
  runs,                \* history: input and outcome of every earlier convert() call
  processor,           \* the AdPlugProcessor: buffer, writeIndex, readIndex, samplesAvailable
  audioLog             \* history since the last 'clear': frames received, frames output

writerVars == << imsWriter, musicParts, imsFile, imsData >>
bankVars == << bnkWriter, bnkFile, loaded >>
parserVars == << vgmBuf, vgmHeader, offset, absoluteSample, commands, clockLog, parseState >>
audioVars == << processor, audioLog >>

vars == << oplTracker, tempo, events, channelInstruments, currentSample, orderIndex,
           pc, nCmds, cmdLog, imsEvents, lastWrite, keyOns, pitchIn, deltaTicks,
           deltaBytes, writerVars, bankVars, parserVars, runs, audioVars >>

\* the inputs the command stream is drawn from
\* register writes << register, value >>: F-Num low of channel 0, key-on (0x2E) and
\* key-off (0x0E) of channels 0..2, carrier level of channel 1, the rhythm register
Writes ==
  { << 160, 114 >>,
    << 176, 46 >>, << 176, 14 >>, << 177, 46 >>, << 177, 14 >>,
    << 178, 46 >>, << 178, 14 >>,
    << 68, 14 >>, << 68, 46 >>,
    << 189, 46 >>, << 189, 14 >> }
\* the values of the tracker-only specification: key-off and key-on
TrackerVals == {14, 46}
Waits == {44100}
Tempos == {120}
\* the tempo options a caller of the converter class can pass: below the range of
\* the header field, its ends, the default, and above it
TempoOptions == {0, 1, 120, 255, 300}
\* the writes of the register frame specification: multiplier, level, attack/decay,
\* sustain/release and waveform of the carrier of channel 0 (slot 3), an invalid
\* slot offset (0x26), F-Num low, key-on and key-off of channel 0
FrameWrites ==
  { << 35, 14 >>, << 35, 46 >>, << 67, 46 >>, << 99, 14 >>, << 131, 46 >>,
    << 227, 14 >>, << 38, 14 >>, << 160, 46 >>, << 176, 46 >>, << 176, 14 >> }
\* the writes of the tempo specification: key-on and key-off of channel 0
TempoWrites == { << 176, 46 >>, << 176, 14 >> }

\* the writes of the patch specification: feedback 7 with connection 1 and feedback
\* 2 with connection 0 on channel 0, connection 1 on channel 1, the waveforms of
\* the modulator (2) and the carrier (1) of channel 0, key-on and key-off of
\* channel 0, key-on of channel 1
PatchWrites ==
  { << 192, 15 >>, << 192, 4 >>, << 193, 1 >>, << 224, 2 >>, << 227, 1 >>,
    << 176, 46 >>, << 176, 14 >>, << 177, 46 >> }

\* the registers of the tracker-only specification: one or more of every
\* dispatch branch, an invalid slot offset (0x26) and undispatched ones (0x00, 0xB9)
TrackerRegs == {0, 35, 38, 67, 99, 131, 160, 176, 184, 185, 189, 192, 227}
\* the values every register 0..255 is probed with: key-on bit clear, and every bit set
ProbeVals == {14, 255}
\* the channels the pitch specification keys
PitchChannels == {0, 8}

\* the events handed to an IMSWriter: a note-on, an instrument change whose index is
\* 0xFC, and a tempo event with one data value missing, as << type, channel, data >>
WriterEvents ==
  { << IMS_EVENT_NOTE_ON_COND, 0, << 60, 127 >> >>,
    << IMS_EVENT_INSTRUMENT, 0, << 252 >> >>,
    << IMS_EVENT_TEMPO, 1, << 1 >> >> }
\* their ticks
WriterTicks == {0, 249, 490}
\* one event of every type on channel 0, and a note-on of channel 1, handed to the
\* writer of the status specification
StatusEvents ==
  { << IMS_EVENT_NOTE_ON_ALWAYS, 0, << 60, 64 >> >>,
    << IMS_EVENT_NOTE_ON_COND, 0, << 60, 127 >> >>,
    << IMS_EVENT_NOTE_ON_COND, 1, << 62, 0 >> >>,
    << IMS_EVENT_VOLUME, 0, << 100 >> >>,
    << IMS_EVENT_INSTRUMENT, 0, << 1 >> >>,
    << IMS_EVENT_PITCH_BEND, 0, << 0, 64 >> >>,
    << IMS_EVENT_TEMPO, 0, << 1, 2 >> >> }
\* the name lists handed to setInstruments: none, one name, a second name of 10
\* characters ('instrument')
WriterNameLists ==
  { << >>,
    << instName(0) >>,
    << instName(0), << 105, 110, 115, 116, 114, 117, 109, 101, 110, 116 >> >> }

\* the bytes the command stream of a parsed buffer is made of: the opcodes write,
\* long wait, NTSC wait, end, short wait (4 samples), DAC wait (3 samples), and 0xBD
\* (an ignored opcode, and the rhythm register as an operand)
DataBytes == {90, 97, 98, 102, 115, 131, 189}
SeqsUpTo(S, n) == UNION {[1 .. k -> S] : k \in 0 .. n}
\* a 64-byte header with the magic and a data offset field of 0 (data at 0x40)
Header40 == VgmMagic \o Zeros(60)
\* the same with a data offset field of 0x0C (0x34 + 0x0C = 0x40)
HeaderRel == VgmMagic \o Zeros(48) \o << 12, 0, 0, 0 >> \o Zeros(8)
\* command streams that end inside the operands of a skipped opcode: 0x50 with no
\* byte, 0x51 with one, a 0x67 block with half a header and one with one of its four
\* data bytes, 0xE0 with one byte; a whole 0x67 block before the end command; and
\* a 0x67 block whose data are 0x66 and 0x5A, before an NTSC wait and the end command
SkippedStreams ==
  { << 80 >>, << 81, 0 >>, << 103, 102, 0 >>, << 103, 102, 0, 4, 0, 0, 0, 1 >>,
    << 224, 0 >>, << 103, 102, 0, 1, 0, 0, 0, 9, 102 >>,
    << 103, 102, 0, 2, 0, 0, 0, 102, 90, 98, 102 >> }
\* a long wait of 40 samples, a DAC wait of 15, then a key-on of channel 0
DacWaitStream == << 97, 40, 0, 143, 90, 176, 46, 102 >>
\* a header of 0x54 bytes: data offset field 0x20 (data at 0x54) and the YM3812
\* clock 3579545 at 0x50
HeaderClock ==
  VgmMagic \o Zeros(48) \o << 32, 0, 0, 0 >> \o Zeros(24) \o << 153, 158, 54, 0 >>
\* the buffers handed to parseVGM: every command stream of up to MaxData bytes after
\* the header, the streams above, a relative data offset, a header with a clock
\* alone and before an end command, wrong magics ('Vgmx', 'vgm ' before a key-on,
\* four bytes only), and buffers cut short
ParserBuffers ==
  {Header40 \o d : d \in SeqsUpTo(DataBytes, MaxData) \cup SkippedStreams
                         \cup {DacWaitStream}}
    \cup {HeaderRel \o << 102 >>,
          HeaderClock,
          HeaderClock \o << 102 >>,
          << 86, 103, 109, 120 >> \o Zeros(60) \o << 102 >>,
          << 118, 103, 109, 32 >> \o Zeros(60) \o << 90, 176, 46, 102 >>,
          << 86, 103, 109, 0 >>,
          << 86, 103 >>,
          VgmMagic \o Zeros(12)}

\* the names of the instruments handed to addInstrument: 'b', 'a', 'A'
BankNames == { << 98 >>, << 97 >>, << 65 >> }

\* the params of the k-th instrument of a tracker table: the k-th setting of the
\* two operator levels
tableParams(k) ==
  operatorsToBnkParams(
    [createDefaultChannel EXCEPT !.operators[0].level = k % 64,
                                 !.operators[1].level = (k \div 64) % 64])

\* the instrument a tracker interns as its k-th
tableInstrument(k) ==
  [id |-> k, name |-> instName(k), params |-> tableParams(k),
   hash |-> hashParams(tableParams(k))]

\* getInstruments() of a tracker that interned n instruments
trackerTable(n) == [i \in 1 .. n |-> tableInstrument(i - 1)]

\* the gaps between the two events of a file that is read back: none, a short one,
\* and the one whose 0xF8 bytes fill exactly one page between two note-ons (two
\* bytes less with two instrument changes, four more with a tempo event first)
ReaderGaps == {0, 249, 240 * (pageSize - 8)}
\* the names of a file that is read back: none, or 'Piano' and 'instrument'
ReaderNameLists ==
  { << >>,
    << << 80, 105, 97, 110, 111 >>,
       << 105, 110, 115, 116, 114, 117, 109, 101, 110, 116 >> >> }

\* the buffers converted one after the other: a key-on of channel 0; a carrier
\* level, then the key-on; an NTSC wait, then key-on and key-off of channel 1 with
\* no end command; a wrong magic
RunBuffers ==
  { Header40 \o << 90, 176, 46, 102 >>,
    Header40 \o << 90, 67, 14, 90, 176, 46, 102 >>,
    Header40 \o << 98, 90, 177, 46, 90, 177, 14 >>,
    << 86, 103, 109, 120 >> \o Zeros(60) \o << 102 >> }

\* parseIMS was not called
NotParsed ==
  [byteSize |-> Null, dMode |-> Null, chNum |-> Null, basicTempo |-> Null,
   musicData |-> << >>, insNum |-> Null, insNames |-> << >>]

\* loadInstruments was not called
NotLoaded == [error |-> "idle", map |-> << >>]

NoWrite ==
  [reg |-> Null, val |-> Null, prevKeyOn |-> [c \in Channels |-> FALSE],
   event |-> NoEvent]

\* nothing was received or output since the last 'clear'
NoAudio == [received |-> << >>, played |-> << >>, needSamples |-> Null]

\* a converter constructed with one of the given tempo options, at the start of
\* convert()
InitConversionOf(tempos) ==
  /\ oplTracker = NewTracker
  /\ tempo \in tempos
  /\ events = << >>
  /\ channelInstruments = [c \in Channels |-> Null]
  /\ currentSample = 0
  /\ orderIndex = 0
  /\ pc = "loop"
  /\ nCmds = 0
  /\ cmdLog = << >>
  /\ imsEvents = << >>
  /\ lastWrite = NoWrite
  /\ keyOns = << >>
  /\ imsWriter = setTempo(setSongName(NewIMSWriter, << >>), tempo)
  /\ musicParts = << >>
  /\ imsFile = << >>
  /\ imsData = NotParsed
  /\ bnkWriter = NewBNKWriter
  /\ bnkFile = << >>
  /\ loaded = NotLoaded
  /\ runs = << >>
  /\ processor = NewProcessor
  /\ audioLog = NoAudio

InitConversion == InitConversionOf(Tempos)

\* no buffer is being parsed: the commands are handed to processCommands directly
InitNoParse ==
  /\ vgmBuf = << >>
  /\ vgmHeader = Null
  /\ offset = 0
  /\ absoluteSample = 0
  /\ commands = << >>
  /\ clockLog = << >>
  /\ parseState = "idle"

Init ==
  /\ InitConversion
  /\ InitNoParse
  /\ pitchIn = [channel |-> 0, fnum |-> 0, block |-> 0]
  /\ deltaTicks = 0
  /\ deltaBytes = << >>

\* the event e as the k-th event handed to the writer, at tick t
WriterEvent(e, t, k) ==
  [type |-> e[1], channel |-> e[2], data |-> e[3], absoluteTick |-> t, orderIndex |-> k]

\* IMSWriter.write() and the bookkeeping of what it encoded
WriteOf(w) ==
  LET r == imsWrite(w)
  IN /\ imsWriter' = r.writer
     /\ musicParts' = encodeMusicDataLoop(r.writer.events, 1, -1)
     /\ imsFile' = r.file
     /\ UNCHANGED imsData

\* one iteration of the loop of processCommands on a `write` command
ProcessWrite(reg, val) ==
  /\ pc = "loop"
  /\ LET r == writeRegister(oplTracker, reg, val)
         tick == samplesToTicks(currentSample, tempo)
         f == pushOplEvent([events |-> events,
                            channelInstruments |-> channelInstruments,
                            orderIndex |-> orderIndex], r.event, tick)
     IN /\ oplTracker' = r.tracker
        /\ events' = f.events
        /\ channelInstruments' = f.channelInstruments
        /\ orderIndex' = f.orderIndex
        /\ lastWrite' = [reg |-> reg, val |-> val,
                         prevKeyOn |-> [c \in Channels |-> oplTracker.channels[c].keyOn],
                         event |-> r.event]
        /\ keyOns' = IF r.event.type = "noteOn"
                     THEN Append(keyOns,
                            [channel |-> r.event.channel,
                             index |-> r.event.instrumentIndex,
                             params |-> operatorsToBnkParams(
                                          r.tracker.channels[r.event.channel]),
                             evPos |-> Len(f.events)])
                     ELSE keyOns
  /\ nCmds' = nCmds + 1
  /\ cmdLog' = Append(cmdLog, [type |-> "write", register |-> reg, value |-> val])
  /\ UNCHANGED << tempo, currentSample, pc, imsEvents, pitchIn, deltaTicks, deltaBytes,
                  writerVars, bankVars, parserVars, runs, audioVars >>

CmdWrite ==
  \E w \in Writes :
    /\ nCmds < MaxCmds
    /\ ProcessWrite(w[1], w[2])

\* one iteration on a `wait` command; the parser's clock never goes back
CmdWait ==
  \E n \in Waits :
    /\ pc = "loop"
    /\ nCmds < MaxCmds
    /\ currentSample' = currentSample + n
    /\ nCmds' = nCmds + 1
    /\ cmdLog' = Append(cmdLog, [type |-> "wait", register |-> Null, value |-> n])
    /\ UNCHANGED << oplTracker, tempo, events, channelInstruments, orderIndex, pc,
                    imsEvents, lastWrite, keyOns, pitchIn, deltaTicks, deltaBytes,
                    writerVars, bankVars, parserVars, runs, audioVars >>

\* convert() after processCommands returned: the drum mode, the events and the
\* tracker's instruments go to the writers, which write both files
ConvertTail(tracker, evs) ==
  LET w1 == setDrumMode(imsWriter, IF tracker.percussionMode THEN 1 ELSE 0)
      w2 == addEvents(w1, evs)
      b1 == addInstruments(bnkWriter, tracker.instruments)
      w3 == setInstruments(w2, getInstrumentNames(b1))
  IN /\ WriteOf(w3)
     /\ bnkWriter' = b1
     /\ bnkFile' = bnkWrite(b1)
     /\ imsEvents' = sortEvents(evs)

\* the loop ends (an `end` command or the end of the list); convert() sets the drum
\* mode, hands the events and the tracker's instruments to the writers and writes
\* both files
Finish ==
  /\ pc = "loop"
  /\ pc' = "done"
  /\ ConvertTail(oplTracker, events)
  /\ UNCHANGED << oplTracker, tempo, events, channelInstruments, currentSample,
                  orderIndex, nCmds, cmdLog, lastWrite, keyOns, pitchIn, deltaTicks,
                  deltaBytes, loaded, parserVars, runs, audioVars >>

Next == CmdWrite \/ CmdWait \/ Finish

Spec == Init /\ [][Next]_vars

\* conversions at every tempo option: key-on, key-off and waits
InitTempo ==
  /\ InitConversionOf(TempoOptions)
  /\ InitNoParse
  /\ pitchIn = [channel |-> 0, fnum |-> 0, block |-> 0]
  /\ deltaTicks = 0
  /\ deltaBytes = << >>

TempoWrite ==
  \E w \in TempoWrites :
    /\ nCmds < MaxCmds
    /\ ProcessWrite(w[1], w[2])

NextTempo == TempoWrite \/ CmdWait \/ Finish

SpecTempo == InitTempo /\ [][NextTempo]_vars

\* the audio processor: the main thread posts 'samples' and 'clear' messages, the
\* audio thread calls process(); every handler runs to its end before the next
\* the frames k + 1 .. k + n, interleaved: frame j has j in both channels
FramesFrom(k, n) == [i \in 1 .. 2 * n |-> k + (i + 1) \div 2]

PostSamples ==
  \E n \in 1 .. MaxPost :
    /\ Len(audioLog.received) + n <= MaxReceived
    /\ LET samples == FramesFrom(Len(audioLog.received), n)
       IN /\ processor' = onSamples(processor, samples)
          /\ audioLog' = [audioLog EXCEPT
                            !.received = @ \o [j \in 1 .. n |->
                                                 << samples[2 * j - 1], samples[2 * j] >>]]
    /\ UNCHANGED << oplTracker, tempo, events, channelInstruments, currentSample,
                    orderIndex, pc, nCmds, cmdLog, imsEvents, lastWrite, keyOns,
                    pitchIn, deltaTicks, deltaBytes, writerVars, bankVars,
                    parserVars, runs >>

PostClear ==
  /\ processor' = onClear(processor)
  /\ audioLog' = NoAudio
  /\ UNCHANGED << oplTracker, tempo, events, channelInstruments, currentSample,
                  orderIndex, pc, nCmds, cmdLog, imsEvents, lastWrite, keyOns,
                  pitchIn, deltaTicks, deltaBytes, writerVars, bankVars,
                  parserVars, runs >>

Process ==
  \E frameCount \in 1 .. MaxFrameCount :
    /\ LET r == process(processor, frameCount)
       IN /\ processor' = r.processor
          /\ audioLog' = [audioLog EXCEPT
                            !.played = @ \o SelectSeq(r.output, LAMBDA f : f # << 0, 0 >>),
                            !.needSamples = r.needSamples]
    /\ UNCHANGED << oplTracker, tempo, events, channelInstruments, currentSample,
                    orderIndex, pc, nCmds, cmdLog, imsEvents, lastWrite, keyOns,
                    pitchIn, deltaTicks, deltaBytes, writerVars, bankVars,
                    parserVars, runs >>

NextRing == PostSamples \/ PostClear \/ Process

SpecRing == Init /\ [][NextRing]_vars

\* the tracker alone: register writes only
TrackerWrite ==
  \E reg \in TrackerRegs, val \in TrackerVals :
    /\ nCmds < MaxProbeWrites
    /\ ProcessWrite(reg, val)

NextTracker == TrackerWrite

SpecTracker == Init /\ [][NextTracker]_vars

\* the operator and frequency registers: the shadow state they leave
FrameWrite ==
  \E w \in FrameWrites :
    /\ nCmds < MaxProbeWrites
    /\ ProcessWrite(w[1], w[2])

NextFrame == FrameWrite

SpecFrame == Init /\ [][NextFrame]_vars

\* the patch registers: feedback/connection and waveform writes around key-ons
PatchWrite ==
  \E w \in PatchWrites :
    /\ nCmds < MaxPatchWrites
    /\ ProcessWrite(w[1], w[2])

NextPatch == PatchWrite

SpecPatch == Init /\ [][NextPatch]_vars

\* the pitch of every (fnum, block) on every channel: fnum low, key-on, key-off
InitPitch ==
  /\ InitConversion
  /\ InitNoParse
  /\ pitchIn \in [channel : PitchChannels, fnum : 0 .. 1023, block : 0 .. 7]
  /\ deltaTicks = 0
  /\ deltaBytes = << >>

PitchFnumLow ==
  /\ nCmds = 0
  /\ ProcessWrite(OPL_REG_FNUM_LOW_START + pitchIn.channel, pitchIn.fnum % 256)

PitchKeyOn ==
  /\ nCmds = 1
  /\ ProcessWrite(OPL_REG_KEYON_START + pitchIn.channel,
                  OPL_KEYON_MASK + 4 * pitchIn.block + (pitchIn.fnum \div 256))

PitchKeyOff ==
  /\ nCmds = 2
  /\ ProcessWrite(OPL_REG_KEYON_START + pitchIn.channel,
                  4 * pitchIn.block + (pitchIn.fnum \div 256))

NextPitch == PitchFnumLow \/ PitchKeyOn \/ PitchKeyOff

SpecPitch == InitPitch /\ [][NextPitch]_vars

\* encodeDeltaTime on every gap up to MaxTicks
InitDelta ==
  /\ InitConversion
  /\ InitNoParse
  /\ pitchIn = [channel |-> 0, fnum |-> 0, block |-> 0]
  /\ deltaTicks \in 0 .. MaxTicks
  /\ deltaBytes = << >>

EncodeDelta ==
  /\ deltaBytes = << >>
  /\ deltaBytes' = encodeDeltaTime(deltaTicks)
  /\ UNCHANGED << oplTracker, tempo, events, channelInstruments, currentSample,
                  orderIndex, pc, nCmds, cmdLog, imsEvents, lastWrite, keyOns, pitchIn,
                  deltaTicks, writerVars, bankVars, parserVars, runs, audioVars >>

\* two events deltaTicks apart are handed to a writer, which writes the file
WriteGap ==
  \E a \in WriterEvents, b \in WriterEvents :
    /\ imsFile = << >>
    /\ WriteOf(addEvents(imsWriter, << WriterEvent(a, 0, 0),
                                       WriterEvent(b, deltaTicks, 1) >>))
    /\ UNCHANGED << oplTracker, tempo, events, channelInstruments, currentSample,
                    orderIndex, pc, nCmds, cmdLog, imsEvents, lastWrite, keyOns,
                    pitchIn, deltaTicks, deltaBytes, bankVars, parserVars, runs,
                    audioVars >>

NextDelta == EncodeDelta \/ WriteGap

SpecDelta == InitDelta /\ [][NextDelta]_vars

\* parseVGM on a buffer, then the rest of convert() on the parsed commands
InitParser ==
  /\ InitConversion
  /\ pitchIn = [channel |-> 0, fnum |-> 0, block |-> 0]
  /\ deltaTicks = 0
  /\ deltaBytes = << >>
  /\ vgmBuf \in ParserBuffers
  /\ vgmHeader = Null
  /\ offset = 0
  /\ absoluteSample = 0
  /\ commands = << >>
  /\ clockLog = << >>
  /\ parseState = "header"

ParseHeader ==
  /\ parseState = "header"
  /\ LET r == parseHeader(vgmBuf)
     IN IF r.error # "none"
        THEN /\ parseState' = r.error
             /\ UNCHANGED << vgmHeader, offset >>
        ELSE /\ parseState' = "commands"
             /\ vgmHeader' = r.header
             /\ offset' = r.header.dataOffset
  /\ UNCHANGED << oplTracker, tempo, events, channelInstruments, currentSample,
                  orderIndex, pc, nCmds, cmdLog, imsEvents, lastWrite, keyOns,
                  pitchIn, deltaTicks, deltaBytes, writerVars, bankVars,
                  vgmBuf, absoluteSample, commands, clockLog, runs, audioVars >>

\* one iteration of the loop of parseCommands
ParseCommand ==
  /\ parseState = "commands"
  /\ offset < Len(vgmBuf)
  /\ LET q == parseCommand(vgmBuf, [offset |-> offset,
                                    absoluteSample |-> absoluteSample,
                                    commands |-> commands, clockLog |-> clockLog,
                                    state |-> parseState])
     IN /\ offset' = q.offset
        /\ absoluteSample' = q.absoluteSample
        /\ commands' = q.commands
        /\ clockLog' = q.clockLog
        /\ parseState' = q.state
  /\ UNCHANGED << oplTracker, tempo, events, channelInstruments, currentSample,
                  orderIndex, pc, nCmds, cmdLog, imsEvents, lastWrite, keyOns,
                  pitchIn, deltaTicks, deltaBytes, writerVars, bankVars,
                  vgmBuf, vgmHeader, runs, audioVars >>

\* the loop condition fails: parseCommands returns the list
ParseReturn ==
  /\ parseState = "commands"
  /\ offset >= Len(vgmBuf)
  /\ parseState' = "returned"
  /\ UNCHANGED << oplTracker, tempo, events, channelInstruments, currentSample,
                  orderIndex, pc, nCmds, cmdLog, imsEvents, lastWrite, keyOns,
                  pitchIn, deltaTicks, deltaBytes, writerVars, bankVars,
                  vgmBuf, vgmHeader, offset, absoluteSample, commands, clockLog,
                  runs, audioVars >>

\* convert() from processCommands on, for the commands parseVGM returned
ConvertParsed ==
  /\ parseState = "returned"
  /\ pc = "loop"
  /\ pc' = "done"
  /\ LET st == processCommandsFrom(startProcess(oplTracker), commands, 1, tempo)
     IN /\ oplTracker' = st.tracker
        /\ events' = st.events
        /\ channelInstruments' = st.channelInstruments
        /\ currentSample' = st.currentSample
        /\ orderIndex' = st.orderIndex
        /\ ConvertTail(st.tracker, st.events)
  /\ UNCHANGED << tempo, nCmds, cmdLog, lastWrite, keyOns, pitchIn, deltaTicks,
                  deltaBytes, loaded, parserVars, runs, audioVars >>

NextParser == ParseHeader \/ ParseCommand \/ ParseReturn \/ ConvertParsed

SpecParser == InitParser /\ [][NextParser]_vars

\* convert() called again on the same converter: lines 48-54 make a new tracker
\* and new writers and configure the IMS writer from the options
newConversionKeepTracker(c) ==
  [c EXCEPT !.imsWriter = setTempo(setSongName(NewIMSWriter, << >>), tempo),
            !.bnkWriter = NewBNKWriter]

newConversion(c) ==
  [c EXCEPT !.oplTracker = NewTracker,
            !.imsWriter = setTempo(setSongName(NewIMSWriter, << >>), tempo),
            !.bnkWriter = NewBNKWriter]

\* the current convert() call returned or threw
RunEnded == pc = "done" \/ parseState \in {"InvalidMagic", "RangeError"}

\* its input and what the caller got
RunOutcome ==
  [buf |-> vgmBuf, tempo |-> tempo,
   error |-> IF pc = "done" THEN "none" ELSE parseState,
   ims |-> imsFile, bnk |-> bnkFile,
   instrumentCount |-> getInstrumentCount(bnkWriter),
   eventCount |-> Len(imsWriter.events)]

InitRuns ==
  /\ InitConversion
  /\ pitchIn = [channel |-> 0, fnum |-> 0, block |-> 0]
  /\ deltaTicks = 0
  /\ deltaBytes = << >>
  /\ vgmBuf \in RunBuffers
  /\ vgmHeader = Null
  /\ offset = 0
  /\ absoluteSample = 0
  /\ commands = << >>
  /\ clockLog = << >>
  /\ parseState = "header"

\* the next convert() call: its locals and objects are new, whatever the call
\* before left behind
ConvertNew ==
  \E buf \in RunBuffers :
    /\ RunEnded
    /\ Len(runs) < MaxRuns - 1
    /\ runs' = Append(runs, RunOutcome)
    /\ vgmBuf' = buf
    /\ vgmHeader' = Null
    /\ offset' = 0
    /\ absoluteSample' = 0
    /\ commands' = << >>
    /\ clockLog' = << >>
    /\ parseState' = "header"
    /\ LET n == newConversion([oplTracker |-> oplTracker, imsWriter |-> imsWriter,
                               bnkWriter |-> bnkWriter])
       IN /\ oplTracker' = n.oplTracker
          /\ imsWriter' = n.imsWriter
          /\ bnkWriter' = n.bnkWriter
    /\ events' = << >>
    /\ channelInstruments' = [c \in Channels |-> Null]
    /\ currentSample' = 0
    /\ orderIndex' = 0
    /\ pc' = "loop"
    /\ imsEvents' = << >>
    /\ musicParts' = << >>
    /\ imsFile' = << >>
    /\ bnkFile' = << >>
    /\ UNCHANGED << tempo, nCmds, cmdLog, lastWrite, keyOns, pitchIn, deltaTicks,
                    deltaBytes, imsData, loaded, audioVars >>

NextRuns == ConvertNew \/ ParseHeader \/ ParseCommand \/ ParseReturn \/ ConvertParsed

SpecRuns == InitRuns /\ [][NextRuns]_vars

\* the BNK writer and the readers: instruments are added one by one or as the
\* table of a tracker, both files are written, and the names of the IMS footer are
\* looked up in the BNK file
BankAddInstrument ==
  \E name \in BankNames :
    /\ bnkFile = << >>
    /\ Len(bnkWriter.instruments) < MaxBankNames
    /\ bnkWriter' = addInstrument(bnkWriter,
                       [tableInstrument(Len(bnkWriter.instruments)) EXCEPT !.name = name])
    /\ UNCHANGED << oplTracker, tempo, events, channelInstruments, currentSample,
                    orderIndex, pc, nCmds, cmdLog, imsEvents, lastWrite, keyOns,
                    pitchIn, deltaTicks, deltaBytes, writerVars, bnkFile, loaded,
                    parserVars, runs, audioVars >>

BankAddTable ==
  \E n \in 1 .. MaxTable :
    /\ bnkFile = << >>
    /\ bnkWriter.instruments = << >>
    /\ bnkWriter' = addInstruments(bnkWriter, trackerTable(n))
    /\ UNCHANGED << oplTracker, tempo, events, channelInstruments, currentSample,
                    orderIndex, pc, nCmds, cmdLog, imsEvents, lastWrite, keyOns,
                    pitchIn, deltaTicks, deltaBytes, writerVars, bnkFile, loaded,
                    parserVars, runs, audioVars >>

\* convert() from setInstruments on: the names go to the IMS writer, both write
BankWrite ==
  /\ bnkFile = << >>
  /\ WriteOf(setInstruments(imsWriter, getInstrumentNames(bnkWriter)))
  /\ bnkFile' = bnkWrite(bnkWriter)
  /\ UNCHANGED << oplTracker, tempo, events, channelInstruments, currentSample,
                  orderIndex, pc, nCmds, cmdLog, imsEvents, lastWrite, keyOns,
                  pitchIn, deltaTicks, deltaBytes, bnkWriter, loaded, parserVars,
                  runs, audioVars >>

\* a player reads the names of the IMS file and loads them from the BNK file
BankLoad ==
  /\ bnkFile # << >>
  /\ loaded.error = "idle"
  /\ loaded' = loadInstruments(bnkFile, parseIMS(imsFile).insNames)
  /\ UNCHANGED << oplTracker, tempo, events, channelInstruments, currentSample,
                  orderIndex, pc, nCmds, cmdLog, imsEvents, lastWrite, keyOns,
                  pitchIn, deltaTicks, deltaBytes, writerVars, bnkWriter, bnkFile,
                  parserVars, runs, audioVars >>

NextBank == BankAddInstrument \/ BankAddTable \/ BankWrite \/ BankLoad

SpecBank == Init /\ [][NextBank]_vars

\* the IMSWriter alone: events and names in any order, then write()
WriterAddEvent ==
  \E e \in WriterEvents, t \in WriterTicks :
    /\ imsFile = << >>
    /\ Len(imsWriter.events) < MaxEvents
    /\ imsWriter' = addEvents(imsWriter, << WriterEvent(e, t, Len(imsWriter.events)) >>)
    /\ UNCHANGED << oplTracker, tempo, events, channelInstruments, currentSample,
                    orderIndex, pc, nCmds, cmdLog, imsEvents, lastWrite, keyOns,
                    pitchIn, deltaTicks, deltaBytes, musicParts, imsFile, imsData,
                    bankVars, parserVars, runs, audioVars >>

WriterSetInstruments ==
  \E names \in WriterNameLists :
    /\ imsFile = << >>
    /\ imsWriter' = setInstruments(imsWriter, names)
    /\ UNCHANGED << oplTracker, tempo, events, channelInstruments, currentSample,
                    orderIndex, pc, nCmds, cmdLog, imsEvents, lastWrite, keyOns,
                    pitchIn, deltaTicks, deltaBytes, musicParts, imsFile, imsData,
                    bankVars, parserVars, runs, audioVars >>

WriterWrite ==
  /\ imsFile = << >>
  /\ WriteOf(imsWriter)
  /\ UNCHANGED << oplTracker, tempo, events, channelInstruments, currentSample,
                  orderIndex, pc, nCmds, cmdLog, imsEvents, lastWrite, keyOns,
                  pitchIn, deltaTicks, deltaBytes, bankVars, parserVars, runs,
                  audioVars >>

NextWriter == WriterAddEvent \/ WriterSetInstruments \/ WriterWrite

SpecWriter == Init /\ [][NextWriter]_vars

\* the status bytes: events of every type, 10 ticks apart, then write()
StatusAddEvent ==
  \E e \in StatusEvents :
    /\ imsFile = << >>
    /\ Len(imsWriter.events) < MaxEvents
    /\ imsWriter' = addEvents(imsWriter,
                       << WriterEvent(e, 10 * Len(imsWriter.events),
                                      Len(imsWriter.events)) >>)
    /\ UNCHANGED << oplTracker, tempo, events, channelInstruments, currentSample,
                    orderIndex, pc, nCmds, cmdLog, imsEvents, lastWrite, keyOns,
                    pitchIn, deltaTicks, deltaBytes, musicParts, imsFile, imsData,
                    bankVars, parserVars, runs, audioVars >>

NextStatus == StatusAddEvent \/ WriterWrite

SpecStatus == Init /\ [][NextStatus]_vars

\* a file is written and read back: two events a gap apart, a drum mode and names
\* go to a writer, write() returns the file, parseIMS reads it
InitReader ==
  /\ InitConversion
  /\ InitNoParse
  /\ pitchIn = [channel |-> 0, fnum |-> 0, block |-> 0]
  /\ deltaTicks \in ReaderGaps
  /\ deltaBytes = << >>

ReaderWrite ==
  \E a \in WriterEvents, b \in WriterEvents, names \in ReaderNameLists, mode \in {0, 1} :
    /\ imsFile = << >>
    /\ WriteOf(setInstruments(
                 addEvents(setDrumMode(imsWriter, mode),
                           << WriterEvent(a, 0, 0), WriterEvent(b, deltaTicks, 1) >>),
                 names))
    /\ UNCHANGED << oplTracker, tempo, events, channelInstruments, currentSample,
                    orderIndex, pc, nCmds, cmdLog, imsEvents, lastWrite, keyOns,
                    pitchIn, deltaTicks, deltaBytes, bankVars, parserVars, runs,
                    audioVars >>

ReaderParse ==
  /\ imsFile # << >>
  /\ imsData = NotParsed
  /\ imsData' = parseIMS(imsFile)
  /\ UNCHANGED << oplTracker, tempo, events, channelInstruments, currentSample,
                  orderIndex, pc, nCmds, cmdLog, imsEvents, lastWrite, keyOns,
                  pitchIn, deltaTicks, deltaBytes, imsWriter, musicParts, imsFile,
                  bankVars, parserVars, runs, audioVars >>

NextReader == ReaderWrite \/ ReaderParse

SpecReader == InitReader /\ [][NextReader]_vars

(***************************************************************************)
(* Claims                                                                  *)
(***************************************************************************)
\* the command list of the single-note VGM: 0xA0=0x72, 0xB0=0x2E, wait 44100, 0xB0=0x0E
SingleNoteCommands ==
  << [type |-> "write", register |-> 160, value |-> 114],
     [type |-> "write", register |-> 176, value |-> 46],
     [type |-> "wait", register |-> Null, value |-> 44100],
     [type |-> "write", register |-> 176, value |-> 14] >>

SingleNoteConverted == pc = "done" /\ cmdLog = SingleNoteCommands /\ tempo = 120

SingleNoteEvents(note) ==
  << [type |-> 192, channel |-> 0, data |-> << 0 >>, absoluteTick |-> 0, orderIndex |-> 0],
     [type |-> 144, channel |-> 0, data |-> << note, 127 >>, absoluteTick |-> 0,
      orderIndex |-> 1],
     [type |-> 144, channel |-> 0, data |-> << note, 0 >>, absoluteTick |-> 480,
      orderIndex |-> 2] >>

\* C1 as stated: the single-note VGM at tempo 120 converts to 0xC0/ch0 [0] at tick 0,
\* 0x90/ch0 [59,127] at tick 0 and 0x90/ch0 [59,0] at tick 480, with one instrument.
C1_SingleNote59 ==
  SingleNoteConverted =>
    /\ imsEvents = SingleNoteEvents(59)
    /\ Len(oplTracker.instruments) = 1

\* C1 amended: the same three events, but the note is 58: fnum 626 is nearer to
\* freqNums[10] = 611 (distance 15) than to freqNums[11] = 647 (distance 21).
C1_SingleNote58 ==
  SingleNoteConverted =>
    /\ imsEvents = SingleNoteEvents(58)
    /\ Len(oplTracker.instruments) = 1

C1_Witness == SingleNoteConverted /\ Len(imsEvents) = 3

\* the index the claim names: the lowest i minimizing |fnum - freqNums[i]|
LowestNearest(fnum) ==
  CHOOSE i \in 0 .. 11 :
    \A j \in 0 .. 11 :
      \/ Abs(fnum - freqNums[i + 1]) < Abs(fnum - freqNums[j + 1])
      \/ Abs(fnum - freqNums[i + 1]) = Abs(fnum - freqNums[j + 1]) /\ i <= j

\* C2: for every block 0..7 and fnum 0..1023 the note of a key-on or key-off event is
\* block*12 + i + 12 with i the lowest index nearest to fnum; for fnum = freqNums[i]
\* it is block*12 + i + 12.
C2_PitchMapping ==
  lastWrite.event.type \in {"noteOn", "noteOff"} =>
    /\ oplTracker.channels[pitchIn.channel].fnum = pitchIn.fnum
    /\ oplTracker.channels[pitchIn.channel].block = pitchIn.block
    /\ lastWrite.event.note = pitchIn.block * 12 + LowestNearest(pitchIn.fnum) + 12
    /\ \A i \in 0 .. 11 :
         pitchIn.fnum = freqNums[i + 1] => lastWrite.event.note = pitchIn.block * 12 + i + 12

\* a key-off of a tie (353 is 10 away from 343 and from 363) in the highest block
C2_Witness ==
  /\ lastWrite.event.type = "noteOff"
  /\ pitchIn.fnum = 353
  /\ pitchIn.block = 7
  /\ lastWrite.event.note = 96

\* what a write of val to reg returns, given key_on of every channel before and after
KeyEventRule(reg, before, after, event) ==
  LET isKeyReg == reg >= 176 /\ reg <= 184
      ch == reg - 176
  IN /\ event.type \in {"null", "noteOn", "noteOff"}
     /\ event.type = "noteOn" <=> (isKeyReg /\ ~before[ch] /\ after[ch])
     /\ event.type = "noteOff" <=> (isKeyReg /\ before[ch] /\ ~after[ch])
     /\ event.type # "null" => event.channel = ch

KeyOnOf(t) == [c \in Channels |-> t.channels[c].keyOn]

\* C3: writeRegister returns noteOn exactly when the write is to 0xB0+ch and that
\* channel's key_on goes false -> true, noteOff exactly when it goes true -> false,
\* and null for every other write; for the write just made and for a write of every
\* register 0..255 that could follow.
C3_KeyTransitionEvents ==
  /\ lastWrite.reg # Null =>
       KeyEventRule(lastWrite.reg, lastWrite.prevKeyOn, KeyOnOf(oplTracker),
                    lastWrite.event)
  /\ \A reg \in Byte, val \in ProbeVals :
       LET r == writeRegister(oplTracker, reg, val)
       IN KeyEventRule(reg, KeyOnOf(oplTracker), KeyOnOf(r.tracker), r.event)

\* a key-on write to a channel whose key is already on returned nothing
C3_Witness ==
  /\ lastWrite.reg = 176
  /\ lastWrite.prevKeyOn[0]
  /\ oplTracker.channels[0].keyOn
  /\ lastWrite.event = NoEvent

\* C4: two key-on transitions get the same instrument index iff the params built at
\* those moments are identical; the table holds no two entries with equal params and
\* its entry at position i has id i.
C4_Interning ==
  /\ \A i \in DOMAIN keyOns, j \in DOMAIN keyOns :
       (keyOns[i].index = keyOns[j].index) <=> (keyOns[i].params = keyOns[j].params)
  /\ \A i \in DOMAIN oplTracker.instruments, j \in DOMAIN oplTracker.instruments :
       i # j => oplTracker.instruments[i].params # oplTracker.instruments[j].params
  /\ \A i \in DOMAIN oplTracker.instruments : oplTracker.instruments[i].id = i - 1
  /\ \A k \in DOMAIN keyOns :
       /\ keyOns[k].index + 1 \in DOMAIN oplTracker.instruments
       /\ oplTracker.instruments[keyOns[k].index + 1].params = keyOns[k].params

\* three key-ons: two channels sharing a patch, and a different patch
C4_Witness ==
  /\ Len(keyOns) >= 3
  /\ \E i \in DOMAIN keyOns, j \in DOMAIN keyOns :
       keyOns[i].channel # keyOns[j].channel /\ keyOns[i].index = keyOns[j].index
  /\ \E i \in DOMAIN keyOns, j \in DOMAIN keyOns : keyOns[i].index # keyOns[j].index

\* positions before p of the 0xC0 events pushed on channel c
ChangesBefore(c, p) ==
  {q \in 1 .. p - 1 : events[q].type = IMS_EVENT_INSTRUMENT /\ events[q].channel = c}

SetMax(S) == CHOOSE x \in S : \A y \in S : y <= x

\* the index of the last 0xC0 on channel c before position p, Null if there is none
LastChangeBefore(c, p) ==
  IF ChangesBefore(c, p) = {} THEN Null
  ELSE events[SetMax(ChangesBefore(c, p))].data[1]

\* the 0x90 of key-on k has a 0xC0 of the same channel and tick right before it
ChangePushedFor(k) ==
  LET p == keyOns[k].evPos
  IN /\ p > 1
     /\ events[p - 1].type = IMS_EVENT_INSTRUMENT
     /\ events[p - 1].channel = keyOns[k].channel
     /\ events[p - 1].absoluteTick = events[p].absoluteTick
     /\ events[p - 1].orderIndex + 1 = events[p].orderIndex

\* C5: at a note-on on channel c the facade pushes a 0xC0 right before the 0x90
\* exactly when the note's instrument index differs from the last 0xC0 pushed on c
\* (or there is none); so the latest 0xC0 on c carries the note's index; the same
\* patch keyed on channel 0 then on channel 1 gives one instrument and two 0xC0
\* events, one per channel, both with index 0.
C5_InstrumentChange ==
  /\ \A k \in DOMAIN keyOns :
       LET p == keyOns[k].evPos
           c == keyOns[k].channel
           idx == keyOns[k].index
           earlier == LastChangeBefore(c, IF ChangePushedFor(k) THEN p - 1 ELSE p)
       IN /\ events[p].type = IMS_EVENT_NOTE_ON_COND
          /\ events[p].channel = c
          /\ ChangePushedFor(k) <=> (earlier # idx)
          /\ ChangePushedFor(k) => events[p - 1].data = << idx >>
          /\ LastChangeBefore(c, p) = idx
  /\ \A q \in DOMAIN events :
       events[q].type = IMS_EVENT_INSTRUMENT =>
         \E k \in DOMAIN keyOns : keyOns[k].evPos = q + 1
  /\ ( /\ Len(keyOns) = 2
       /\ keyOns[1].channel = 0
       /\ keyOns[2].channel = 1
       /\ keyOns[1].params = keyOns[2].params )
     => /\ Len(oplTracker.instruments) = 1
        /\ \A c \in {0, 1} :
             \E q \in DOMAIN events :
               /\ ChangesBefore(c, Len(events) + 1) = {q}
               /\ events[q].data = << 0 >>
        /\ \A c \in Channels \ {0, 1} : ChangesBefore(c, Len(events) + 1) = {}

\* channel 0 and channel 1 keyed with one patch, then channel 0 keyed again: the
\* third note-on pushes no 0xC0
C5_Witness ==
  /\ Len(keyOns) = 3
  /\ keyOns[1].channel = 0
  /\ keyOns[2].channel = 1
  /\ keyOns[3].channel = 0
  /\ keyOns[1].index = keyOns[2].index
  /\ ChangePushedFor(1)
  /\ ChangePushedFor(2)
  /\ ~ChangePushedFor(3)

\* where the event with order index o stands in the sorted list
SortedPos(o) == CHOOSE i \in DOMAIN imsEvents : imsEvents[i].orderIndex = o

\* C6: in the order write() encodes, events are non-decreasing in tick and events of
\* equal tick are in increasing order index, so every 0xC0 pushed for a note-on comes
\* before that note's 0x90; the sort keeps exactly the events the facade produced.
C6_SortedOrder ==
  pc = "done" =>
    /\ Len(imsEvents) = Len(events)
    /\ \A e \in {events[q] : q \in DOMAIN events} :
         \E i \in DOMAIN imsEvents : imsEvents[i] = e
    /\ \A i \in DOMAIN imsEvents, j \in DOMAIN imsEvents :
         i < j =>
           /\ imsEvents[i].absoluteTick <= imsEvents[j].absoluteTick
           /\ imsEvents[i].absoluteTick = imsEvents[j].absoluteTick
                => imsEvents[i].orderIndex < imsEvents[j].orderIndex
    /\ \A k \in DOMAIN keyOns :
         ChangePushedFor(k) =>
           SortedPos(events[keyOns[k].evPos - 1].orderIndex)
             < SortedPos(events[keyOns[k].evPos].orderIndex)

\* a sorted list with two ticks, the later one holding a 0xC0 and its 0x90
C6_Witness ==
  /\ pc = "done"
  /\ Len(imsEvents) >= 4
  /\ imsEvents[1].absoluteTick < imsEvents[Len(imsEvents)].absoluteTick
  /\ imsEvents[Len(imsEvents) - 1].type = IMS_EVENT_INSTRUMENT
  /\ imsEvents[Len(imsEvents)].type = IMS_EVENT_NOTE_ON_COND
  /\ imsEvents[Len(imsEvents) - 1].absoluteTick = imsEvents[Len(imsEvents)].absoluteTick

\* C7: every 0xC0 event of a conversion carries an index idx with 0 <= idx < N, N the
\* number of instruments in the tracker's table when the conversion ends.
C7_IndexInRange ==
  /\ \A q \in DOMAIN events :
       events[q].type = IMS_EVENT_INSTRUMENT =>
         /\ events[q].data[1] >= 0
         /\ events[q].data[1] < Len(oplTracker.instruments)
  /\ pc = "done" =>
       \A i \in DOMAIN imsEvents :
         imsEvents[i].type = IMS_EVENT_INSTRUMENT =>
           /\ imsEvents[i].data[1] >= 0
           /\ imsEvents[i].data[1] < Len(oplTracker.instruments)

\* a finished conversion with two instruments whose last 0xC0 carries index N - 1
C7_Witness ==
  /\ pc = "done"
  /\ Len(oplTracker.instruments) = 2
  /\ \E i \in DOMAIN imsEvents :
       imsEvents[i].type = IMS_EVENT_INSTRUMENT /\ imsEvents[i].data[1] = 1

EventInRange(event) ==
  /\ event.type # "null" => event.channel \in Channels
  /\ event.type \in {"noteOn", "noteOff"} => event.note \in 0 .. 127

\* C8: every event the tracker returns carries a channel in 0..8 and every noteOn or
\* noteOff a note in 0..127; for the write just made and for a write of every
\* register 0..255 that could follow.
C8_EventRanges ==
  /\ EventInRange(lastWrite.event)
  /\ \A reg \in Byte, val \in ProbeVals :
       EventInRange(writeRegister(oplTracker, reg, val).event)

\* a key-off on the last channel
C8_Witness ==
  /\ lastWrite.event.type = "noteOff"
  /\ lastWrite.event.channel = 8
  /\ lastWrite.event.note \in 0 .. 127

\* the reader of a delta: 240 for every 0xF8 byte, the value of every other byte
RECURSIVE decodeDelta(_)
decodeDelta(bytes) ==
  IF bytes = << >> THEN 0
  ELSE (IF Head(bytes) = 248 THEN 240 ELSE Head(bytes)) + decodeDelta(Tail(bytes))

\* C9: decoding the bytes of encodeDeltaTime(t) gives t, for every gap up to MaxTicks.
C9_DeltaRoundTrip ==
  deltaBytes # << >> => decodeDelta(deltaBytes) = deltaTicks

\* a gap of two whole chunks and a remainder
C9_Witness ==
  /\ deltaTicks = 490
  /\ deltaBytes = << 248, 248, 10 >>

CeilDiv(a, b) == (a + b - 1) \div b

\* C10 as stated: the delta of t takes ceil(t/240) + 1 bytes, one more when
\* t mod 240 is in 0xF8..0xFB.
C10_LengthCeil ==
  deltaBytes # << >> =>
    Len(deltaBytes) = CeilDiv(deltaTicks, 240) + 1
                      + (IF deltaTicks % 240 \in 248 .. 251 THEN 1 ELSE 0)

\* C10 amended: the delta of t takes floor(t/240) + 1 bytes; t mod 240 is never in
\* 0xF8..0xFB, so no gap takes an extra byte.
C10_LengthFloor ==
  deltaBytes # << >> => Len(deltaBytes) = (deltaTicks \div 240) + 1

\* a gap of exactly two chunks: two 0xF8 bytes and a zero
C10_Witness ==
  /\ deltaTicks = 480
  /\ deltaBytes = << 248, 248, 0 >>

\* the number of bytes the first n iterations of encodeMusicData pushed
RECURSIVE PartsLen(_, _)
PartsLen(parts, n) ==
  IF n = 0 THEN 0
  ELSE PartsLen(parts, n - 1) + Len(parts[n].eventBytes) + Len(parts[n].deltaBytes)

\* the bytes of the written file where the delta after the i-th event was pushed
DeltaInFile(i) ==
  LET from == IMS_OFFSET_MUSICDATA + PartsLen(musicParts, i - 1)
              + Len(musicParts[i].eventBytes)
  IN SubSeq(imsFile, from + 1, from + Len(musicParts[i].deltaBytes))

\* every pair of consecutive events g ticks apart has the delta `bytes` between them
GapEncodedAs(g, bytes) ==
  \A i \in 1 .. Len(musicParts) - 1 :
    imsWriter.events[i + 1].absoluteTick - imsWriter.events[i].absoluteTick = g
      => /\ musicParts[i].deltaBytes = bytes
         /\ DeltaInFile(i) = bytes

\* C11 as stated: two consecutive events 249 ticks apart have the delta between
\* them written as the three bytes 0xF8 0xF7 0x02.
C11_Gap249ThreeBytes ==
  imsFile # << >> => GapEncodedAs(249, << 248, 247, 2 >>)

\* C11 amended: two consecutive events 249 ticks apart have the delta between them
\* written as the two bytes 0xF8 0x09 (one 240-tick chunk and a remainder of 9).
C11_Gap249TwoBytes ==
  imsFile # << >> => GapEncodedAs(249, << 248, 9 >>)

\* a file written for two events 249 ticks apart
C11_Witness ==
  /\ imsFile # << >>
  /\ Len(musicParts) = 2
  /\ imsWriter.events[2].absoluteTick - imsWriter.events[1].absoluteTick = 249
  /\ DeltaInFile(1) = << 248, 9 >>

\* C12: for every gap t > 0 up to MaxTicks, encodeDeltaTime(t) is floor(t/240) bytes
\* 0xF8 followed by the one byte of the remainder t mod 240, both as returned by the
\* function and as written between two events t ticks apart; 490 gives F8 F8 0A.
C12_ChunkPrefix ==
  LET k == deltaTicks \div 240
      Chunked(bytes) ==
        /\ Len(bytes) = k + 1
        /\ \A i \in 1 .. k : bytes[i] = 248
        /\ bytes[k + 1] = deltaTicks % 240
  IN /\ deltaTicks > 0 /\ deltaBytes # << >> => Chunked(deltaBytes)
     /\ deltaTicks > 0 /\ imsFile # << >> =>
          Chunked(musicParts[1].deltaBytes) /\ Chunked(DeltaInFile(1))
     /\ deltaTicks = 490 /\ imsFile # << >> => DeltaInFile(1) = << 248, 248, 10 >>

\* two events 490 ticks apart, written
C12_Witness ==
  /\ deltaTicks = 490
  /\ imsFile # << >>
  /\ imsWriter.events[2].absoluteTick = 490
  /\ DeltaInFile(1) = << 248, 248, 10 >>

\* no byte of a delta is in 0xF9..0xFF and its last byte is in 0x00..0xF7
DeltaBytesLegal(bytes) ==
  /\ \A i \in 1 .. Len(bytes) : bytes[i] \in 0 .. 248
  /\ bytes[Len(bytes)] \in 0 .. 247

\* C13: for every gap up to MaxTicks, no byte of encodeDeltaTime's result is in
\* 0xF9..0xFF and its last byte is at most 0xF7; in the written music data the
\* same holds of every delta, the data ends with one 0xFC after the last delta, and
\* that byte is the last byte before the footer.
C13_ReservedBytes ==
  /\ deltaBytes # << >> => DeltaBytesLegal(deltaBytes)
  /\ imsFile # << >> =>
       LET n == Len(musicParts)
           byteSize == getUint32(imsFile, IMS_OFFSET_BYTESIZE)
       IN /\ \A i \in 1 .. n :
               /\ DeltaBytesLegal(musicParts[i].deltaBytes)
               /\ DeltaBytesLegal(DeltaInFile(i))
               /\ \A j \in 1 .. Len(DeltaInFile(i)) : DeltaInFile(i)[j] # 252
          /\ byteSize = PartsLen(musicParts, n) + 1
          /\ imsFile[IMS_OFFSET_MUSICDATA + byteSize] = 252

\* a gap of 0xFC ticks before an instrument change whose data byte is 0xFC
C13_Witness ==
  /\ deltaTicks = 252
  /\ deltaBytes = << 248, 12 >>
  /\ imsFile # << >>
  /\ imsWriter.events[2].type = IMS_EVENT_INSTRUMENT
  /\ DeltaInFile(1) = << 248, 12 >>
  /\ 252 \in {musicParts[2].eventBytes[j] : j \in 1 .. Len(musicParts[2].eventBytes)}

\* C14: in every written IMS file the u32 at offset 42 is the number of bytes
\* encodeMusicData pushed (events, deltas and the loop marker), the byte at
\* 71 + byteSize is 0, the u16 after it is the number of names, and the file is
\* 71 + byteSize + 3 + 9 * insNum bytes long.
C14_ByteSize ==
  imsFile # << >> =>
    LET byteSize == getUint32(imsFile, IMS_OFFSET_BYTESIZE)
        insNum == Len(imsWriter.instrumentNames)
    IN /\ byteSize = PartsLen(musicParts, Len(musicParts)) + 1
       /\ Len(imsFile) = 71 + byteSize + 3 + 9 * insNum
       /\ imsFile[71 + byteSize + 1] = 0
       /\ getUint16(imsFile, 71 + byteSize + 1) = insNum
       /\ imsFile[71 + byteSize] = 252

\* three events and two names, written
C14_Witness ==
  /\ imsFile # << >>
  /\ Len(imsWriter.events) = 3
  /\ Len(imsWriter.instrumentNames) = 2
  /\ getUint32(imsFile, IMS_OFFSET_BYTESIZE) > 1

\* the minimal VGM: the magic, data at 0x40 (offset field 0 or 0x0C), one 0x66 there
MinimalVgm == {Header40 \o << VGM_CMD_END >>, HeaderRel \o << VGM_CMD_END >>}

\* C15: converting a minimal VGM with default options gives an IMS file with
\* byteSize 1, music data 0xFC, insNum 0, basicTempo 120, dMode 0, and a BNK file of
\* 20 bytes with insMaxNum 0.
C15_MinimalVgm ==
  vgmBuf \in MinimalVgm /\ pc = "done" =>
    /\ getUint32(imsFile, IMS_OFFSET_BYTESIZE) = 1
    /\ getUint8(imsFile, IMS_OFFSET_MUSICDATA) = 252
    /\ getUint8(imsFile, IMS_OFFSET_MUSICDATA + 1) = 0
    /\ getUint16(imsFile, IMS_OFFSET_MUSICDATA + 2) = 0
    /\ Len(imsFile) = IMS_OFFSET_MUSICDATA + 4
    /\ getUint16(imsFile, IMS_OFFSET_TEMPO) = 120
    /\ getUint8(imsFile, IMS_OFFSET_DMODE) = 0
    /\ getUint16(bnkFile, 8) = 0
    /\ Len(bnkFile) = 20

\* the minimal VGM was parsed to a single End record and converted
C15_Witness ==
  /\ vgmBuf = Header40 \o << VGM_CMD_END >>
  /\ pc = "done"
  /\ Len(commands) = 1
  /\ commands[1].type = "end"
  /\ Len(imsFile) = 75
  /\ Len(bnkFile) = 20

\* C16 as stated: when the command stream holds a write to 0xBD with bit 0x20 set,
\* the dMode byte at offset 58 of the written IMS file is 1, whatever other writes
\* precede or follow.
C16_RhythmSticky ==
  pc = "done" /\ (\E i \in 1 .. Len(cmdLog) :
                    /\ cmdLog[i].type = "write"
                    /\ cmdLog[i].register = OPL_REG_RHYTHM
                    /\ BitAnd(cmdLog[i].value, OPL_RHYTHM_MODE_MASK) # 0)
    => getUint8(imsFile, IMS_OFFSET_DMODE) = 1

\* C20: in the command list of the parser, abs_sample never decreases from one
\* record to the next, a Wait record carries the clock its iteration started with
\* plus its samples, a Write or End record carries the clock its iteration started
\* with, and that clock is never behind the record before.
C20_ClockMonotone ==
  /\ Len(clockLog) = Len(commands)
  /\ \A i \in 1 .. Len(commands) :
       /\ commands[i].type = "wait" =>
            /\ commands[i].samples >= 0
            /\ commands[i].absoluteSample = clockLog[i] + commands[i].samples
       /\ commands[i].type \in {"write", "end"} =>
            commands[i].absoluteSample = clockLog[i]
       /\ i > 1 =>
            /\ commands[i - 1].absoluteSample <= clockLog[i]
            /\ commands[i - 1].absoluteSample <= commands[i].absoluteSample
  /\ Len(commands) > 0 => commands[Len(commands)].absoluteSample <= absoluteSample

\* a returned list for a DAC wait of 3 samples (no record), a short wait of 4 and
\* the end marker
C20_Witness ==
  /\ parseState = "returned"
  /\ Len(commands) = 2
  /\ commands[1].type = "wait"
  /\ commands[1].samples = 4
  /\ commands[1].absoluteSample = 7
  /\ commands[2].type = "end"
  /\ commands[2].absoluteSample = 7

\* the number of directory entries of the written BNK file and the name of entry i
\* (from 0), as the reader reads them
DirCount == getUint16(bnkFile, 8)
DirName(i) == readString(bnkFile, getUint32(bnkFile, 12) + i * BNK_LIST_ENTRY_SIZE + 3, 9)

\* C17 as stated: in every written BNK file, adjacent directory entries i, i+1
\* satisfy lowercase(name_i) < lowercase(name_{i+1}), for tracker tables and for
\* instruments added by name.
C17_DirectorySorted ==
  bnkFile # << >> =>
    \A i \in 0 .. DirCount - 2 :
      strLess(toLowerCase(DirName(i)), toLowerCase(DirName(i + 1)))

\* the instruments of the BNK writer are the table of a tracker (inst_00, inst_01, ...)
FromTracker ==
  \A i \in 1 .. Len(bnkWriter.instruments) :
    bnkWriter.instruments[i].name = instName(i - 1)

\* C18 as stated: after a conversion, looking up the i-th name of the IMS footer in
\* the BNK file finds an entry and returns the 28 params of instrument i, for every
\* instrument i of the tracker's table.
C18_LookupRoundTrip ==
  FromTracker /\ loaded.error # "idle" =>
    /\ loaded.error = "none"
    /\ \A i \in 1 .. Len(bnkWriter.instruments) :
         LET name == parseIMS(imsFile).insNames[i]
         IN /\ name \in DOMAIN loaded.map
            /\ loaded.map[name] = bnkWriter.instruments[i].params

\* C19 as stated: the names of the directory of every written BNK file are pairwise
\* distinct, compared case-insensitively.
C19_NamesDistinct ==
  bnkFile # << >> =>
    \A i \in 0 .. DirCount - 1 : \A j \in 0 .. DirCount - 1 :
      i # j => toLowerCase(DirName(i)) # toLowerCase(DirName(j))

\* C21: reading back the bytes write() returned, parseIMS yields the byteSize,
\* dMode, basicTempo and insNum written, the names written in lower case, and
\* pages in which readPagedByte finds the k-th encoded music-data byte for every
\* k < byteSize, also when byteSize is a multiple of the page size or exceeds it.
C21_ReadBack ==
  imsData # NotParsed =>
    /\ imsData.dMode = imsWriter.dMode
    /\ imsData.basicTempo = imsWriter.basicTempo
    /\ imsData.insNum = Len(imsWriter.instrumentNames)
    /\ imsData.insNames =
         [i \in 1 .. Len(imsWriter.instrumentNames) |->
            toLowerCase(imsWriter.instrumentNames[i])]
    /\ imsData.byteSize = PartsLen(musicParts, Len(musicParts)) + 1
    /\ [k \in 1 .. imsData.byteSize |-> readPagedByte(imsData.musicData, k - 1)]
         = encodeMusicData(imsWriter.events)

\* music data of exactly one page was read back, with an upper-case name
C21_Witness ==
  /\ imsData # NotParsed
  /\ imsData.byteSize = pageSize
  /\ Len(imsData.musicData) = 1
  /\ imsData.insNum = 2
  /\ imsData.insNames[1] = << 112, 105, 97, 110, 111 >>
  /\ imsData.dMode = 1

\* the outcomes of all convert() calls so far, the current one included once it ended
AllRuns == IF RunEnded THEN Append(runs, RunOutcome) ELSE runs

\* C22: conversions of equal input bytes with equal options give byte-identical
\* IMS and BNK outputs (and equal counts, or the same error), whatever was
\* converted before them.
C22_Deterministic ==
  \A i \in 1 .. Len(AllRuns) : \A j \in 1 .. Len(AllRuns) :
    (AllRuns[i].buf = AllRuns[j].buf /\ AllRuns[i].tempo = AllRuns[j].tempo)
      => AllRuns[i] = AllRuns[j]

\* the same buffer was converted first and third, another one in between, and both
\* wrote events and instruments
C22_Witness ==
  /\ pc = "done"
  /\ Len(runs) = 2
  /\ runs[1].buf = vgmBuf
  /\ runs[2].buf # vgmBuf
  /\ runs[2].instrumentCount > 0
  /\ Len(imsWriter.events) > 0
  /\ getInstrumentCount(bnkWriter) > 0
  /\ imsFile # << >>
  /\ bnkFile # << >>

\* C23: when the four bytes at offset 0 are not 'Vgm ', parsing fails with the
\* invalid-magic error before any command is decoded, and the conversion returns
\* no IMS and no BNK output.
C23_InvalidMagic ==
  (Len(vgmBuf) >= 4 /\ SubSeq(vgmBuf, 1, 4) # VgmMagic /\ parseState # "header")
    => /\ parseState = "InvalidMagic"
       /\ vgmHeader = Null
       /\ commands = << >>
       /\ absoluteSample = 0
       /\ events = << >>
       /\ pc = "loop"
       /\ imsFile = << >>
       /\ bnkFile = << >>

\* 'vgm ' before a key-on and an end command was rejected
C23_Witness ==
  /\ parseState = "InvalidMagic"
  /\ SubSeq(vgmBuf, 2, 4) = SubSeq(VgmMagic, 2, 4)
  /\ Len(vgmBuf) = 68
  /\ vgmBuf[65] = VGM_CMD_YM3812_WRITE

\* C24: when the operand bytes of a decoded opcode extend past the end of the
\* buffer, parsing fails instead of returning a command list: parseCommands
\* never returns with its offset beyond the end of the buffer.
C24_TruncatedFails ==
  parseState = "returned" => (offset <= Len(vgmBuf) \/ offset = vgmHeader.dataOffset)

\* C25: for every interned instrument params[12] is 1 when the channel's shadow
\* connection was 0 at key-on and 0 when it was 1, params[2] is the channel
\* feedback, params[26] and params[27] are the modulator and carrier waveforms, and
\* params[15] and params[25] are 0. (params[k] is position k + 1 here; a key-on
\* write leaves the patch fields of the shadow channel as they were.)
C25_PatchParams ==
  /\ \A i \in 1 .. Len(oplTracker.instruments) :
       /\ oplTracker.instruments[i].params[16] = 0
       /\ oplTracker.instruments[i].params[26] = 0
  /\ lastWrite.event.type = "noteOn" =>
       LET ch == oplTracker.channels[lastWrite.event.channel]
           params == oplTracker.instruments[lastWrite.event.instrumentIndex + 1].params
       IN /\ Len(params) = 28
          /\ ch.connection \in {0, 1}
          /\ params[13] = (IF ch.connection = 0 THEN 1 ELSE 0)
          /\ params[3] = ch.feedback
          /\ params[27] = ch.operators[0].waveform
          /\ params[28] = ch.operators[1].waveform

\* channel 0 was keyed on with connection 1, feedback 7 and carrier waveform 1, and
\* got an instrument of its own
C25_Witness ==
  /\ lastWrite.event.type = "noteOn"
  /\ lastWrite.event.channel = 0
  /\ lastWrite.event.instrumentIndex = 1
  /\ oplTracker.channels[0].connection = 1
  /\ oplTracker.channels[0].feedback = 7
  /\ oplTracker.channels[0].operators[1].waveform = 1
  /\ oplTracker.instruments[2].params[13] = 0

C27_DacWaitRecord ==
  [][(/\ parseState = "commands"
      /\ offset < Len(vgmBuf)
      /\ getUint8(vgmBuf, offset) >= 128
      /\ getUint8(vgmBuf, offset) <= 143)
       => LET samples == BitAnd(getUint8(vgmBuf, offset), 15)
          IN /\ absoluteSample' = absoluteSample + samples
             /\ commands' =
                  Append(commands,
                         [type |-> "wait", register |-> Null, value |-> Null,
                          samples |-> samples,
                          absoluteSample |-> absoluteSample + samples])]_vars

\* the commands with the parser's clock made known before every write
RECURSIVE SyncedCommands(_)
SyncedCommands(cmds) ==
  IF cmds = << >> THEN << >>
  ELSE (IF Head(cmds).type = "write"
        THEN << [type |-> "wait", register |-> Null, value |-> Null, samples |-> 0,
                 absoluteSample |-> Head(cmds).absoluteSample] >>
        ELSE << >>)
       \o << Head(cmds) >> \o SyncedCommands(Tail(cmds))

\* C28: the abs_tick of every event the facade produces from a parsed command
\* stream is round(S * 4 * tempo / 44100) for the abs_sample S of the Write
\* command that triggered it: the events are the ones the facade produces when
\* its current_sample is set to the parser's clock at every Write.
C28_TickFromWriteClock ==
  (parseState = "returned" /\ pc = "done")
    => events =
         processCommandsFrom(startProcess(NewTracker), SyncedCommands(commands),
                             1, tempo).events

\* the number of payload bytes fixed for an event type
PayloadLen(type) ==
  CASE type \in {IMS_EVENT_NOTE_ON_ALWAYS, IMS_EVENT_NOTE_ON_COND, IMS_EVENT_PITCH_BEND} -> 2
    [] type \in {IMS_EVENT_VOLUME, IMS_EVENT_INSTRUMENT} -> 1
    [] type = IMS_EVENT_TEMPO -> 5

\* the status byte of the i-th encoded event
StatusOf(i) == BitOr(imsWriter.events[i].type, imsWriter.events[i].channel)

\* C29: in the encoded music data the status byte (type | channel) of an event is
\* written if and only if it differs from the status of the event encoded just
\* before it, the first event always writes it, and the status (or, without one,
\* the preceding delta) is followed by exactly the payload bytes fixed for the type.
C29_RunningStatus ==
  imsFile # << >> =>
    \A i \in 1 .. Len(imsWriter.events) :
      LET written == i = 1 \/ StatusOf(i) # StatusOf(i - 1)
          from == IMS_OFFSET_MUSICDATA + PartsLen(musicParts, i - 1)
          n == PayloadLen(imsWriter.events[i].type) + (IF written THEN 1 ELSE 0)
      IN /\ Len(musicParts[i].eventBytes) = n
         /\ SubSeq(imsFile, from + 1, from + n) = musicParts[i].eventBytes
         /\ written => imsFile[from + 1] = StatusOf(i)
         /\ SubSeq(imsFile, from + n + 1, from + n + Len(musicParts[i].deltaBytes))
              = musicParts[i].deltaBytes

\* two note-ons of channel 0 and a tempo event were written: the second status is
\* left out, the third is written before five payload bytes
C29_Witness ==
  /\ imsFile # << >>
  /\ Len(imsWriter.events) = 3
  /\ StatusOf(1) = IMS_EVENT_NOTE_ON_COND
  /\ StatusOf(2) = StatusOf(1)
  /\ StatusOf(3) = IMS_EVENT_TEMPO
  /\ Len(musicParts[2].eventBytes) = 2
  /\ Len(musicParts[3].eventBytes) = 6

\* the sum of the deltas the written file holds after the first n events
RECURSIVE DeltaSum(_)
DeltaSum(n) ==
  IF n = 0 THEN 0 ELSE DeltaSum(n - 1) + decodeDelta(DeltaInFile(n))

\* C30: decoding the written music data from its first byte, the deltas before
\* the k-th event add up to that event's abs_tick, for the first event too; the
\* delta after the last event is 0 and one 0xFC byte after it ends the music data.
C30_DeltaSums ==
  imsFile # << >> =>
    LET n == Len(imsWriter.events)
        end == IMS_OFFSET_MUSICDATA + PartsLen(musicParts, n)
    IN /\ \A k \in 1 .. n : DeltaSum(k - 1) = imsWriter.events[k].absoluteTick
       /\ n > 0 => DeltaInFile(n) = << 0 >>
       /\ imsFile[end + 1] = 252
       /\ getUint32(imsFile, IMS_OFFSET_BYTESIZE) = PartsLen(musicParts, n) + 1

\* C31: the header's YM3812 clock is read from offset 0x50 exactly when the buffer
\* length reaches 0x54 (the four bytes 0x50..0x53 are present) and is 0 otherwise;
\* a clock of 0 is not fatal, the command stream is decoded all the same.
C31_ClockRead ==
  parseState \in {"commands", "returned"} =>
    vgmHeader.ym3812Clock =
      (IF Len(vgmBuf) >= VGM_OFFSET_YM3812_CLOCK + 4
       THEN getUint32(vgmBuf, VGM_OFFSET_YM3812_CLOCK)
       ELSE 0)

\* the five operator register groups and the operator fields each one holds
OperatorBases ==
  {OPL_REG_AVEK_START, OPL_REG_KSL_START, OPL_REG_AD_START, OPL_REG_SR_START,
   OPL_REG_WAVE_START}
GroupFields(base) ==
  CASE base = OPL_REG_AVEK_START -> {"am", "vib", "egt", "ksr", "mult"}
    [] base = OPL_REG_KSL_START -> {"ksl", "level"}
    [] base = OPL_REG_AD_START -> {"attack", "decay"}
    [] base = OPL_REG_SR_START -> {"sustain", "release"}
    [] base = OPL_REG_WAVE_START -> {"waveform"}
OperatorOffsets == (0 .. 5) \cup (8 .. 13) \cup (16 .. 21)

\* the slot an offset names: the offsets 0..5, 8..13, 16..21 in this order are the
\* slots 0..17
SlotOf(regOffset) == regOffset - 2 * (regOffset \div 8)

\* r is t but for the given fields of the operator that owns the slot
OneOperatorChanged(t, r, slot, fields) ==
  LET ch == voiceMSlot[slot + 1]
      op == carrierSlot[slot + 1]
  IN /\ r = [t EXCEPT !.channels[ch].operators[op] = r.channels[ch].operators[op]]
     /\ \A f \in DOMAIN createDefaultOperator \ fields :
          r.channels[ch].operators[op][f] = t.channels[ch].operators[op][f]

\* C32: a write to base + offset of an operator register group with offset in
\* 0..5, 8..13, 16..21 changes only that group's fields on the one operator of
\* the one channel that owns the slot (and does change them: two different values
\* leave different states); with any other offset it leaves the shadow state, the
\* instrument table and the percussion flag as they were. For a write of every
\* such register that could follow the writes made.
C32_OperatorFrame ==
  \A base \in OperatorBases, regOffset \in 0 .. 21 :
    \A r \in {[val \in ProbeVals |-> writeRegister(oplTracker, base + regOffset, val)]} :
      \A val \in ProbeVals :
        /\ r[val].event = NoEvent
        /\ IF regOffset \in OperatorOffsets
           THEN /\ OneOperatorChanged(oplTracker, r[val].tracker, SlotOf(regOffset),
                                      GroupFields(base))
                /\ \A other \in ProbeVals \ {val} : r[other].tracker # r[val].tracker
           ELSE r[val].tracker = oplTracker

\* the carrier of channel 0 got its multiplier from a write to 0x23 and then its
\* level from a write to 0x43
C32_Witness ==
  /\ lastWrite.reg = 67
  /\ GetOperator(oplTracker, 3).mult = 14
  /\ GetOperator(oplTracker, 3).level = 46
  /\ oplTracker.channels[0].operators[0] = createDefaultOperator

\* the values the frequency registers are probed with
FreqProbeVals == {0, 14, 46, 255}

\* C33: after any writes every channel's fnum is in 0..1023 and its block in 0..7;
\* a write to 0xA0+ch replaces the low 8 bits of that channel's fnum and nothing
\* else; a write to 0xB0+ch replaces the high 2 bits of fnum, block and key_on and
\* keeps the low 8 bits, the channel's patch fields and the other channels. For a
\* write of every such register that could follow the writes made.
C33_FnumBlock ==
  /\ \A ch \in Channels :
       /\ oplTracker.channels[ch].fnum \in 0 .. 1023
       /\ oplTracker.channels[ch].block \in 0 .. 7
  /\ \A ch \in Channels, val \in FreqProbeVals :
       LET old == oplTracker.channels[ch]
           low == writeRegister(oplTracker, OPL_REG_FNUM_LOW_START + ch, val).tracker
           high == writeRegister(oplTracker, OPL_REG_KEYON_START + ch, val).tracker
       IN /\ low = [oplTracker EXCEPT
                      !.channels[ch].fnum = (old.fnum \div 256) * 256 + val]
          /\ high.channels =
               [oplTracker.channels EXCEPT
                  ![ch] = [old EXCEPT
                             !.fnum = (val % 4) * 256 + (old.fnum % 256),
                             !.block = (val \div 4) % 8,
                             !.keyOn = (val \div 32) % 2 = 1]]

\* the low byte of channel 0 was written after its high bits, block and key
C33_Witness ==
  /\ lastWrite.reg = 160
  /\ oplTracker.channels[0].fnum = 512 + 46
  /\ oplTracker.channels[0].block = 3
  /\ oplTracker.channels[0].keyOn

\* the number of bytes that follow the opcode at offset `at` (the opcode table):
\* 2 after 0x5A and 0x61, 1 after 0x4F and 0x50, 2 after 0x51..0x5F, 4 after 0xE0,
\* 0x66 tt ss(u32) data[ss] after 0x67 (the rest of the buffer when the size is
\* cut short), 0 after every other opcode
OperandBytes(buf, at) ==
  LET op == getUint8(buf, at)
  IN IF op = 90 \/ op = 97 THEN 2
     ELSE IF op = 79 \/ op = 80 THEN 1
     ELSE IF op >= 81 /\ op <= 95 THEN 2
     ELSE IF op = 224 THEN 4
     ELSE IF op = 103
     THEN IF InRange(buf, at + 3, 4) THEN 6 + getUint32(buf, at + 3) ELSE Len(buf)
     ELSE 0

\* the offsets in opcode position from `at` on, up to the first 0x66 among them
RECURSIVE OpcodePositions(_, _)
OpcodePositions(buf, at) ==
  IF at >= Len(buf) THEN {}
  ELSE IF getUint8(buf, at) = 102 THEN {at}
  ELSE {at} \cup OpcodePositions(buf, at + 1 + OperandBytes(buf, at))

\* the opcodes that emit a record: write, the four waits, end
EmitsRecord(op) == op \in {90, 97, 98, 99, 102} \/ (op >= 112 /\ op <= 127)

\* the End record is the last one, decoding has stopped, and it stands for a 0x66
\* in opcode position; the records are those of the opcodes decoded so far
EndRecordRule ==
  parseState \in {"commands", "returned"} =>
    LET ops == OpcodePositions(vgmBuf, vgmHeader.dataOffset)
    IN /\ \A i \in 1 .. Len(commands) :
            commands[i].type = "end" =>
              /\ i = Len(commands)
              /\ parseState = "returned"
              /\ offset - 1 \in ops
              /\ getUint8(vgmBuf, offset - 1) = VGM_CMD_END
       /\ Len(commands) =
            Cardinality({at \in ops : at < offset /\ EmitsRecord(getUint8(vgmBuf, at))})

\* C34: command decoding terminates (every iteration of the loop runs with
\* offset < byteLength and moves offset forward); the list holds one End record at
\* most, as its last record and for a 0x66 in opcode position only: operand bytes
\* and the bytes of a skipped data block are never decoded, and no byte after
\* that 0x66 makes a record.
C34_Decoding ==
  [][ /\ (parseState = "commands" /\ parseState' = "commands") =>
           (offset < Len(vgmBuf) /\ offset' > offset)
      /\ EndRecordRule' ]_vars

\* the bytes 0x66 and 0x5A of a data block were skipped: one wait, then the end
C34_Witness ==
  /\ parseState = "returned"
  /\ SubSeq(vgmBuf, 65, Len(vgmBuf)) = << 103, 102, 0, 2, 0, 0, 0, 102, 90, 98, 102 >>
  /\ Len(commands) = 2
  /\ commands[1].type = "wait"
  /\ commands[2].type = "end"
  /\ offset = Len(vgmBuf)

\* the names looked up in a bank: none, 'a', 'A', 'b', 'c', 'inst_05', 'INST_03'
FindTargets ==
  { << >>, << 97 >>, << 65 >>, << 98 >>, << 99 >>,
    << 105, 110, 115, 116, 95, 48, 53 >>, << 73, 78, 83, 84, 95, 48, 51 >> }

\* the directory of a BNK file: the name and the 28 params of its i-th entry
EntryName(buf, header, i) == readString(buf, header.insListOff + i * 12 + 3, 9)
EntryParams(buf, header, i) ==
  LET insIndex == getUint16(buf, header.insListOff + i * 12)
      from == header.insDataOff + insIndex * 30 + 2
  IN SubSeq(buf, from + 1, from + 28)
\* the names of the directory ascend strictly, case-insensitively
SortedDistinct(buf, header) ==
  \A i \in 0 .. header.insMaxNum - 1, j \in 0 .. header.insMaxNum - 1 :
    i < j => strLess(toLowerCase(EntryName(buf, header, i)),
                     toLowerCase(EntryName(buf, header, j)))

\* C35: findInstrument terminates for every directory size N >= 0 and every target
\* name, the directory sorted or not; on a directory sorted with distinct names it
\* returns the entry whose name equals the target case-insensitively when there is
\* one, and null otherwise. For every name looked up in every bank written.
C35_FindInstrument ==
  bnkFile # << >> =>
    \A targetName \in FindTargets :
      LET header == parseBNKHeader(bnkFile)
          r == findInstrument(bnkFile, header, targetName)
          same == {i \in 0 .. header.insMaxNum - 1 :
                     toLowerCase(EntryName(bnkFile, header, i)) = toLowerCase(targetName)}
      IN /\ r.status \in {"found", "null", "RangeError"}
         /\ SortedDistinct(bnkFile, header) =>
              IF same # {}
              THEN /\ r.status = "found"
                   /\ \E i \in same : r.params = EntryParams(bnkFile, header, i)
              ELSE r.status = "null"

\* the note events pushed for a channel, in the order of their emission; a
\* note-off is a 0x90 event of volume 0
IsNoteOf(e, ch) == e.type = IMS_EVENT_NOTE_ON_COND /\ e.channel = ch
NoteEventsOf(evs, ch) == SelectSeq(evs, LAMBDA e : IsNoteOf(e, ch))
IsNoteOff(e) == e.data[2] = 0

\* C36: on every channel the note events alternate noteOn, noteOff, noteOn, ...
\* starting with a noteOn, and after every write the number of noteOn minus the
\* number of noteOff of the channel is 1 when its shadow key_on is true and 0
\* otherwise.
C36_Alternation ==
  \A ch \in Channels :
    LET notes == NoteEventsOf(events, ch)
        offs == Cardinality({i \in 1 .. Len(notes) : IsNoteOff(notes[i])})
    IN /\ \A i \in 1 .. Len(notes) : IsNoteOff(notes[i]) <=> (i % 2 = 0)
       /\ (Len(notes) - offs) - offs = Bool01(oplTracker.channels[ch].keyOn)

\* channel 0 was keyed on, off and on again
C36_Witness ==
  /\ Len(NoteEventsOf(events, 0)) = 3
  /\ oplTracker.channels[0].keyOn
  /\ lastWrite.event.type = "noteOn"

\* C37 as stated: every note-off of a channel carries the note number of the
\* note-on before it on that channel, whatever was written in between.
C37_OffNoteIsOnNote ==
  \A ch \in Channels :
    LET notes == NoteEventsOf(events, ch)
    IN \A i \in 2 .. Len(notes) :
         IsNoteOff(notes[i]) => notes[i].data[1] = notes[i - 1].data[1]

\* a write to the key register of the channel with the key bit set / to its
\* F-Number low register
IsKeyWrite(c, ch) == c.type = "write" /\ c.register = OPL_REG_KEYON_START + ch
IsFnumWrite(c, ch) == c.type = "write" /\ c.register = OPL_REG_FNUM_LOW_START + ch
HasKeyBit(c) == c.value % 64 >= OPL_KEYON_MASK
\* the j-th command is the write that keyed the channel on: the key bit is set and
\* the write to the key register before it, when there is one, had it clear
IsKeyOnWrite(ch, j) ==
  /\ IsKeyWrite(cmdLog[j], ch)
  /\ HasKeyBit(cmdLog[j])
  /\ \A k \in 1 .. j - 1 :
       (IsKeyWrite(cmdLog[k], ch) /\ HasKeyBit(cmdLog[k])) =>
         \E m \in k + 1 .. j - 1 : IsKeyWrite(cmdLog[m], ch) /\ ~HasKeyBit(cmdLog[m])
\* the writes from j to the last one leave the pitch of the channel alone: none
\* to its F-Number low register, and the same block and F-Number high bits in
\* every write to its key register
PitchKept(ch, j) ==
  \A k \in j .. Len(cmdLog) :
    /\ ~IsFnumWrite(cmdLog[k], ch)
    /\ IsKeyWrite(cmdLog[k], ch) => cmdLog[k].value % 32 = cmdLog[j].value % 32

\* C37 amended: a note-off carries the note computed from the F-Number and block
\* the channel has after the key-off write; it is the note of the note-on before
\* it when the writes from that key-on write to the key-off write left the
\* channel's F-Number and block alone. Stated for the state the key-off write
\* leaves.
C37_OffNoteCurrentPitch ==
  (pc = "loop" /\ lastWrite.event.type = "noteOff"
     /\ cmdLog[Len(cmdLog)].type = "write") =>
    LET ch == lastWrite.event.channel
        t == oplTracker.channels[ch]
        notes == NoteEventsOf(events, ch)
        off == events[Len(events)]
    IN /\ lastWrite.event.note = fnumBlockToMidi(t.fnum, t.block)
       /\ IsNoteOf(off, ch) /\ IsNoteOff(off)
       /\ off.data[1] = fnumBlockToMidi(t.fnum, t.block)
       /\ \A j \in 1 .. Len(cmdLog) - 1 :
            /\ IsKeyOnWrite(ch, j)
            /\ \A k \in j + 1 .. Len(cmdLog) - 1 :
                 IsKeyWrite(cmdLog[k], ch) => HasKeyBit(cmdLog[k])
            /\ PitchKept(ch, j)
            => off.data[1] = notes[Len(notes) - 1].data[1]

\* channel 0 was keyed on and off with nothing written in between: both events
\* carry the same note
C37_Witness ==
  /\ pc = "loop"
  /\ lastWrite.event.type = "noteOff"
  /\ cmdLog[Len(cmdLog)].type = "write"
  /\ lastWrite.event.channel = 0
  /\ Len(cmdLog) >= 2
  /\ IsKeyOnWrite(0, Len(cmdLog) - 1)
  /\ PitchKept(0, Len(cmdLog) - 1)
  /\ events[Len(events)].data[1] = events[Len(events) - 1].data[1]

\* the indices carried by the 0xC0 events of a list
InstrumentIndices(evs) ==
  {evs[i].data[1] : i \in {k \in DOMAIN evs : evs[k].type = IMS_EVENT_INSTRUMENT}}

\* every index but 0 appears for the first time after the index below it
FirstUseAscends(evs) ==
  \A i \in DOMAIN evs :
    (evs[i].type = IMS_EVENT_INSTRUMENT /\ evs[i].data[1] > 0) =>
      \E j \in 1 .. i - 1 :
        evs[j].type = IMS_EVENT_INSTRUMENT /\ evs[j].data[1] = evs[i].data[1] - 1

\* C38: after a conversion the insNum of the IMS footer, the insMaxNum of the BNK
\* header and the instrumentCount of the result are one number N, the indices of
\* the 0xC0 events are exactly 0..N-1, and they appear for the first time in the
\* order 0, 1, 2, ...
C38_InstrumentCount ==
  pc = "done" =>
    LET N == getInstrumentCount(bnkWriter)
    IN /\ parseIMS(imsFile).insNum = N
       /\ parseBNKHeader(bnkFile).insMaxNum = N
       /\ N = Len(oplTracker.instruments)
       /\ InstrumentIndices(imsEvents) = 0 .. N - 1
       /\ InstrumentIndices(imsWriter.events) = 0 .. N - 1
       /\ FirstUseAscends(imsEvents)
       /\ FirstUseAscends(events)

\* a conversion with two instruments, the first of them used again after the second
C38_Witness ==
  /\ pc = "done"
  /\ getInstrumentCount(bnkWriter) = 2
  /\ \E i \in DOMAIN imsEvents, j \in DOMAIN imsEvents :
       /\ i < j
       /\ imsEvents[i].type = IMS_EVENT_INSTRUMENT /\ imsEvents[i].data[1] = 1
       /\ imsEvents[j].type = IMS_EVENT_INSTRUMENT /\ imsEvents[j].data[1] = 0

\* C39: for every tempo option passed to the converter, inside 1..255 or not, the
\* basicTempo at offset 60 of the IMS header is the tempo the facade converted
\* sample positions to ticks with, and that header value is in 1..255.
C39_HeaderTempo ==
  pc = "done" =>
    /\ getUint16(imsFile, IMS_OFFSET_TEMPO) \in 1 .. 255
    /\ getUint16(imsFile, IMS_OFFSET_TEMPO) = tempo
    /\ \A i \in DOMAIN keyOns :
         LET e == events[keyOns[i].evPos]
             waited == Cardinality({k \in 1 .. Len(cmdLog) : cmdLog[k].type = "wait"})
         IN \E n \in 0 .. waited :
              e.absoluteTick =
                samplesToTicks(n * 44100, getUint16(imsFile, IMS_OFFSET_TEMPO))

\* a is b with some elements left out
RECURSIVE IsSubsequence(_, _)
IsSubsequence(a, b) ==
  IF a = << >> THEN TRUE
  ELSE IF b = << >> THEN FALSE
  ELSE IF Head(a) = Head(b) THEN IsSubsequence(Tail(a), Tail(b))
  ELSE IsSubsequence(a, Tail(b))

\* C40: under every interleaving of 'samples' messages and process() calls since
\* the last 'clear', samplesAvailable stays in 0..bufferSize and the non-silent
\* frames process() has output are a subsequence of the frames received, in the
\* order of their reception, also when more than bufferSize frames are posted
\* before they are consumed.
C40_RingOrder ==
  /\ processor.samplesAvailable \in 0 .. bufferSize
  /\ IsSubsequence(audioLog.played, audioLog.received)

====
